---- MODULE Spec2Model ----
(***************************************************************************)
(* A model of the file system scanner of src/main.rs: the option bitmask,  *)
(* argument parsing in main, the recursive directory-size computation      *)
(* calc_dir_size, the traversals scan_path and search_path with their      *)
(* counters and output, and the pure helpers they call.                    *)
(*                                                                         *)
(* A text is a sequence of one-character strings.  A path is the sequence  *)
(* of child indices leading from the scanned root (the empty sequence) to  *)
(* the entry; the file system is a function from the paths that exist to   *)
(* the entry found there.  read_dir yields the children of a directory in  *)
(* index order.                                                            *)
(***************************************************************************)
EXTENDS Integers, Sequences, FiniteSets, TLC

VARIABLES
    fs,                   \* the file system under the root path
    OPTION_MASK,          \* the set of option bits that are set
    max_recur_level,      \* main: max_recur_level / p_max_level
    search_path,          \* main: search_path / p_search_path (a text)
    init_path,            \* main: init_path (a text)
    args,                 \* env::args() without the program name
    arg_i,                \* index of the next argument main looks at
    specify_recur_depth,  \* main: the previous flag was -r
    specify_search_path,  \* main: the previous flag was a search flag
    pc,                   \* position of the program
    exit_status,          \* Some(status) once the process has ended
    stack,                \* frames of scan_path / search_path, innermost first
    entry_cnts_init,      \* scan_path_init: entry_cnts_init; search_path_init: entry_cnts_match
    entry_cnts_full,      \* scan_path_init: entry_cnts_full; search_path_init: entry_cnts_total
    out,                  \* lines written to standard output
    err,                  \* messages written to standard error
    probe,                \* last direct call of a helper: its arguments and result
    listed                \* the directories scan_path and search_path called read_dir on, in order

vars == <<fs, OPTION_MASK, max_recur_level, search_path, init_path, args, arg_i,
          specify_recur_depth, specify_search_path, pc, exit_status, stack,
          entry_cnts_init, entry_cnts_full, out, err, probe, listed>>

(***************************************************************************)
(* Bounds of the model.                                                    *)
(***************************************************************************)
\* file lengths are multiples of LenUnit, up to MaxLenUnits of them
LenUnit == 700
MaxLenUnits == 2
\* depth limits given after -r range over 0..MaxLevel
MaxLevel == 2

(***************************************************************************)
(* Program constants.                                                      *)
(***************************************************************************)
MAX_PATH_LEN == 256
MAX_FMT_INT_LEN == 32
INDENT_COL_WIDTH == 4

PrgOptions == {"ShowRecursive", "ShowPermissions", "ShowLasttime", "ShowAbsnoindent",
               "ShowFiles", "ShowSymlinks", "ShowSpecial", "SearchExact", "SearchNoext",
               "SearchContains", "ShowDirSize", "ShowErrors", "Help"}

get_option(p_bit) == p_bit \in OPTION_MASK

None == [some |-> FALSE, val |-> 0]
Some(v) == [some |-> TRUE, val |-> v]

\* exit_status while the process has not ended
Running == None

(***************************************************************************)
(* EntryCounter.                                                           *)
(***************************************************************************)
EntryCounter_new == [_num_files |-> 0, _num_symlinks |-> 0, _num_special |-> 0, _num_dirs |-> 0]

get_entry_cnt(c) == c._num_files + c._num_symlinks + c._num_special + c._num_dirs

inc_file_cnt(c, n) == [c EXCEPT !._num_files = @ + n]
dec_file_cnt(c, n) == [c EXCEPT !._num_files = @ - n]
\* inc_symlink_cnt as an increment that is lost
inc_symlink_cnt_lost(c, n) == c

inc_symlink_cnt(c, n) == [c EXCEPT !._num_symlinks = @ + n]
\* dec_symlink_cnt as a decrement that is lost
dec_symlink_cnt_lost(c, n) == c

dec_symlink_cnt(c, n) == [c EXCEPT !._num_symlinks = @ - n]
inc_special_cnt(c, n) == [c EXCEPT !._num_special = @ + n]
dec_special_cnt(c, n) == [c EXCEPT !._num_special = @ - n]
inc_dir_cnt(c, n) == [c EXCEPT !._num_dirs = @ + n]
\* dec_dir_cnt leaving the counter as it is
dec_dir_cnt_lost(c, n) == c

dec_dir_cnt(c, n) == [c EXCEPT !._num_dirs = @ - n]

\* merge_cnts without the call that adds the symlinks
merge_cnts_without_symlinks(acc, cur) ==
    inc_special_cnt(inc_dir_cnt(inc_file_cnt(acc, cur._num_files), cur._num_dirs),
                    cur._num_special)

\* merge_cnts without the call that adds the files
merge_cnts_without_files(acc, cur) ==
    inc_special_cnt(inc_dir_cnt(inc_symlink_cnt(acc, cur._num_symlinks), cur._num_dirs),
                    cur._num_special)

\* merge_cnts without the call that adds the directories
merge_cnts_without_dirs(acc, cur) ==
    inc_special_cnt(inc_file_cnt(inc_symlink_cnt(acc, cur._num_symlinks), cur._num_files),
                    cur._num_special)

\* the four inc_*_cnt calls that add one counter to another
merge_cnts(acc, cur) ==
    inc_special_cnt(inc_dir_cnt(inc_file_cnt(inc_symlink_cnt(acc,
        cur._num_symlinks), cur._num_files), cur._num_dirs), cur._num_special)

(***************************************************************************)
(* The file system.  An entry records what the calls of the program on it  *)
(* return: ftype is the file type of its own metadata (never that of a     *)
(* symlink's target), "err" stands for an Err item of the read_dir         *)
(* iterator.                                                               *)
(***************************************************************************)
Entry(ftype, name, len) ==
    [ftype |-> ftype, name |-> name, len |-> len,
     meta_ok |-> TRUE,     \* entry.metadata() is Ok
     canon_ok |-> TRUE,    \* path.canonicalize() is Ok
     mtime_ok |-> TRUE,    \* metadata.modified() is Ok
     list_ok |-> ftype = "dir",   \* fs::read_dir(path) is Ok
     t_ftype |-> ftype,    \* the file type and length found by following the path:
     t_len |-> len]        \* those of the target, for a symlink

\* Path::is_dir, which follows symlinks
path_is_dir(md) == md.t_ftype = "dir"

EmptyFs == [x \in {} |-> 0]

\* the path of the directory the program is started on
Root == << >>

Parent(p) == SubSeq(p, 1, Len(p) - 1)

RECURSIVE SortedSeq(_)
SortedSeq(S) ==
    IF S = {} THEN <<>>
    ELSE LET m == CHOOSE x \in S : \A y \in S : x <= y
         IN <<m>> \o SortedSeq(S \ {m})

\* fs::read_dir(p): the items of the iterator, in the order it yields them
ReadDir(p) ==
    LET idx == {q[Len(q)] : q \in {r \in DOMAIN fs : Len(r) = Len(p) + 1 /\ Parent(r) = p}}
        ord == SortedSeq(idx)
    IN [k \in 1..Len(ord) |-> Append(p, ord[k])]

\* is_symlink answering no for every entry
is_symlink_unseen(md) == FALSE

is_symlink(md) == md.ftype = "symlink"
is_file(md) == md.ftype = "file"
is_dir(md) == md.ftype = "dir"

\* the special file type scan_path and search_path compute on unix
special_file_type(md) ==
    IF md.ftype = "socket" THEN "Socket"
    ELSE IF md.ftype = "block" THEN "BlockDevice"
    ELSE IF md.ftype = "char" THEN "CharDevice"
    ELSE IF md.ftype = "fifo" THEN "Fifo"
    ELSE "NA"

(***************************************************************************)
(* calc_dir_size.  The result carries, beside the Option<u64>, the paths   *)
(* the call touched (read_dir or metadata), in order, and the messages it  *)
(* wrote to standard error.                                                *)
(***************************************************************************)
RECURSIVE calc_dir_size(_, _)
RECURSIVE calc_dir_size_loop(_, _, _, _, _, _)

\* the Err arm of entry.metadata() with the entry skipped instead
size_metadata_err_skipped(p_init_dir_path, entries, k, res, touched, errs) ==
    calc_dir_size_loop(p_init_dir_path, entries, k + 1, res, touched, errs)

\* the Err arm of entry.metadata(): the message under ShowErrors, then return None
size_metadata_err(p_init_dir_path, entries, k, res, touched, errs) ==
    [res |-> None, touched |-> Append(touched, entries[k]),
     errs |-> IF get_option("ShowErrors")
              THEN Append(errs, [msg |-> "size_metadata", path |-> entries[k],
                                 init |-> p_init_dir_path])
              ELSE errs]

\* the symlink arm with the length of a file the symlink points to added
size_symlink_followed(p_init_dir_path, entries, k, res, touched, errs) ==
    calc_dir_size_loop(p_init_dir_path, entries, k + 1,
                       res + (IF fs[entries[k]].t_ftype = "file" THEN fs[entries[k]].t_len
                              ELSE 0),
                       Append(touched, entries[k]), errs)

\* if metadata.is_symlink() { continue; }
size_symlink(p_init_dir_path, entries, k, res, touched, errs) ==
    calc_dir_size_loop(p_init_dir_path, entries, k + 1, res, Append(touched, entries[k]), errs)

\* the None arm of the nested call with the loop going on to the next entry
size_nested_none_continued(p_init_dir_path, entries, k, res, touched, errs) ==
    calc_dir_size_loop(p_init_dir_path, entries, k + 1, res, touched, errs)

\* the None arm of the nested call: return None
size_nested_none(p_init_dir_path, entries, k, res, touched, errs) ==
    [res |-> None, touched |-> touched, errs |-> errs]

\* the loop of calc_dir_size from the k-th item of the iterator on; touched is
\* the entries looked at so far, in order, errs the messages written so far
calc_dir_size_loop(p_init_dir_path, entries, k, res, touched, errs) ==
    IF k > Len(entries) THEN [res |-> Some(res), touched |-> touched, errs |-> errs]
    ELSE
        LET path_os == entries[k]
            metadata == fs[path_os]
        IN  IF metadata.ftype = "err"
            THEN calc_dir_size_loop(p_init_dir_path, entries, k + 1, res, touched, errs)
            ELSE IF ~metadata.meta_ok
            THEN size_metadata_err(p_init_dir_path, entries, k, res, touched, errs)
            ELSE IF is_symlink(metadata)
            THEN size_symlink(p_init_dir_path, entries, k, res, touched, errs)
            ELSE IF is_file(metadata)
            THEN calc_dir_size_loop(p_init_dir_path, entries, k + 1, res + metadata.len,
                                    Append(touched, path_os), errs)
            ELSE IF is_dir(metadata)
            THEN LET sub == calc_dir_size(p_init_dir_path, path_os)
                 IN  IF sub.res.some
                     THEN calc_dir_size_loop(p_init_dir_path, entries, k + 1,
                                             res + sub.res.val,
                                             Append(touched, path_os) \o sub.touched,
                                             errs \o sub.errs)
                     ELSE size_nested_none(p_init_dir_path, entries, k, res,
                                           Append(touched, path_os) \o sub.touched,
                                           errs \o sub.errs)
            ELSE calc_dir_size_loop(p_init_dir_path, entries, k + 1, res,
                                    Append(touched, path_os), errs)

calc_dir_size(p_init_dir_path, p_dir_path) ==
    IF ~fs[p_dir_path].list_ok
    THEN [res |-> None, touched |-> <<p_dir_path>>,
          errs |-> IF get_option("ShowErrors")
                   THEN <<[msg |-> "size_traverse", path |-> p_dir_path,
                           init |-> p_init_dir_path]>>
                   ELSE <<>>]
    ELSE calc_dir_size_loop(p_init_dir_path, ReadDir(p_dir_path), 1, 0, <<p_dir_path>>, <<>>)

(***************************************************************************)
(* int_to_formatted_slice: the digits are produced from the right into     *)
(* BUFF with a ',' after every third one, then BUFF[..BUFF_LEN] is         *)
(* reversed in place.  The slice returned points into the static BUFF.     *)
(***************************************************************************)
Digit(d) == <<"0", "1", "2", "3", "4", "5", "6", "7", "8", "9">>[d + 1]

Reverse(s) == [k \in 1..Len(s) |-> s[Len(s) - k + 1]]

RECURSIVE fmt_digits(_, _)
fmt_digits(p_number, buff) ==
    IF p_number = 0 THEN buff
    ELSE LET D == p_number % 10
             rest == p_number \div 10
             b1 == Append(buff, Digit(D))
             b2 == IF (Len(b1) % 4) = 3 /\ rest # 0 THEN Append(b1, ",") ELSE b1
         IN  fmt_digits(rest, b2)

int_to_formatted_slice(p_number) ==
    Reverse(fmt_digits(p_number, IF p_number = 0 THEN <<"0">> ELSE << >>))

\* What a slice returned by an earlier call reads once a later call has
\* rewritten BUFF: the later text over the first bytes, the earlier bytes after.
stale_slice(earlier, later) ==
    IF Len(later) >= Len(earlier) THEN SubSeq(later, 1, Len(earlier))
    ELSE later \o SubSeq(earlier, Len(later) + 1, Len(earlier))

(***************************************************************************)
(* int_to_formatted_slice on the whole range of u64.  A value is its five  *)
(* digits to the base 10000, the most significant first; % 10 and / 10 are *)
(* computed on them as the division does, digit by digit from the left.    *)
(***************************************************************************)
WideBase == 10000
WideLen == 5

wide_is_zero(w) == \A i \in 1..Len(w) : w[i] = 0

\* p_number % 10u64
wide_rem(w) == w[Len(w)] % 10

\* p_number / 10u64
wide_div(w) ==
    LET carry[i \in 0..Len(w)] ==
            IF i = 0 THEN 0 ELSE (carry[i - 1] * WideBase + w[i]) % 10
    IN  [i \in 1..Len(w) |-> (carry[i - 1] * WideBase + w[i]) \div 10]

RECURSIVE fmt_digits_u64_by_three(_, _)
\* the loop with the ',' after every third byte of BUFF
fmt_digits_u64_by_three(p_number, buff) ==
    IF wide_is_zero(p_number) THEN buff
    ELSE LET D == wide_rem(p_number)
             rest == wide_div(p_number)
             b1 == Append(buff, Digit(D))
             b2 == IF (Len(b1) % 3) = 0 /\ ~wide_is_zero(rest) THEN Append(b1, ",") ELSE b1
         IN  fmt_digits_u64_by_three(rest, b2)

RECURSIVE fmt_digits_u64(_, _)
\* the while loop of int_to_formatted_slice; buff is BUFF[..BUFF_LEN]
fmt_digits_u64(p_number, buff) ==
    IF wide_is_zero(p_number) THEN buff
    ELSE LET D == wide_rem(p_number)
             rest == wide_div(p_number)
             b1 == Append(buff, Digit(D))
             b2 == IF (Len(b1) % 4) = 3 /\ ~wide_is_zero(rest) THEN Append(b1, ",") ELSE b1
         IN  fmt_digits_u64(rest, b2)

\* the bytes of BUFF written by the call, in the order written, and the slice returned
int_to_formatted_slice_u64(p_number) ==
    LET written == fmt_digits_u64(p_number, IF wide_is_zero(p_number) THEN <<"0">> ELSE << >>)
    IN  [BUFF_LEN |-> Len(written), slice |-> Reverse(written)]

(***************************************************************************)
(* The show_* functions.  Each returns whether it failed, the lines it     *)
(* wrote to standard output and the messages it wrote to standard error.   *)
(* A line is the text of its first column (a size or a label), the path,   *)
(* the indentation (abs: absolute path, no indentation) and whether the    *)
(* permission and time columns precede it.                                 *)
(***************************************************************************)
Line(t, p, sz, ind, abs) ==
    [t |-> t, p |-> p, sz |-> sz, ind |-> ind, abs |-> abs, n |-> << >>,
     perm |-> get_option("ShowPermissions"), time |-> get_option("ShowLasttime")]

ErrMsg(msg, p) == [msg |-> msg, path |-> p, init |-> p]

\* Path::file_name: None when the path ends in ".."
file_name(md) == IF md.name = <<".", ".">> THEN None ELSE Some(md.name)

\* print_permissions!, print_modif_time! and the final print! of a show_* function
print_entry(md, path, line, errs) ==
    IF get_option("ShowLasttime") /\ ~md.mtime_ok
    THEN [failed |-> TRUE,
          out |-> IF get_option("ShowPermissions")
                  THEN <<[line EXCEPT !.t = "permissions", !.sz = << >>, !.time = FALSE]>>
                  ELSE << >>,
          err |-> IF get_option("ShowErrors") THEN Append(errs, ErrMsg("mtime", path))
                  ELSE errs]
    ELSE [failed |-> FALSE, out |-> <<line>>, err |-> errs]

ShowFailed(errs) == [failed |-> TRUE, out |-> << >>, err |-> errs]

show_symlink_noindent(md, path, p_is_dir) ==
    IF ~md.canon_ok
    THEN ShowFailed(IF get_option("ShowErrors") THEN <<ErrMsg("symlink_target", path)>>
                    ELSE << >>)
    ELSE print_entry(md, path,
                     Line(IF p_is_dir THEN "symlink_to_dir" ELSE "symlink", path,
                          <<"SYMLINK">>, 0, TRUE), << >>)

show_symlink(p_indent_width, md, path, p_is_dir) ==
    IF ~file_name(md).some THEN ShowFailed(<< >>)
    ELSE IF ~md.canon_ok
    THEN ShowFailed(IF get_option("ShowErrors") THEN <<ErrMsg("symlink_target", path)>>
                    ELSE << >>)
    ELSE print_entry(md, path,
                     Line(IF p_is_dir THEN "symlink_to_dir" ELSE "symlink", path,
                          <<"SYMLINK">>, p_indent_width, FALSE), << >>)

show_file_noindent(md, path, p_file_len) ==
    IF ~md.canon_ok THEN ShowFailed(<< >>)
    ELSE print_entry(md, path,
                     Line("file", path, int_to_formatted_slice(p_file_len), 0, TRUE), << >>)

show_file(p_indent_width, md, path) ==
    IF ~file_name(md).some THEN ShowFailed(<< >>)
    ELSE print_entry(md, path,
                     Line("file", path, int_to_formatted_slice(md.len), p_indent_width, FALSE),
                     << >>)

\* the size column of a directory: empty, the formatted size, or ERROR
dir_size_column(size) ==
    IF size.res.some THEN int_to_formatted_slice(size.res.val) ELSE <<"ERROR">>

show_dir_noindent(md, path) ==
    IF ~md.canon_ok THEN ShowFailed(<< >>)
    ELSE IF get_option("ShowDirSize")
         THEN LET size == calc_dir_size(path, path)
              IN  print_entry(md, path, Line("dir", path, dir_size_column(size), 0, TRUE),
                              size.errs)
         ELSE print_entry(md, path, Line("dir", path, << >>, 0, TRUE), << >>)

show_dir(p_indent_width, md, path) ==
    IF ~file_name(md).some THEN ShowFailed(<< >>)
    ELSE IF get_option("ShowDirSize")
         THEN LET size == calc_dir_size(path, path)
              IN  print_entry(md, path,
                              Line("dir", path, dir_size_column(size), p_indent_width, FALSE),
                              size.errs)
         ELSE print_entry(md, path, Line("dir", path, << >>, p_indent_width, FALSE), << >>)

special_type(p_special_file_type) ==
    IF p_special_file_type = "Socket" THEN <<"SOCKET">>
    ELSE IF p_special_file_type = "BlockDevice" THEN <<"BLOCK DEVICE">>
    ELSE IF p_special_file_type = "CharDevice" THEN <<"CHAR DEVICE">>
    ELSE IF p_special_file_type = "Fifo" THEN <<"FIFO PIPE">>
    ELSE <<"SPECIAL">>

show_special_noindent(md, path, p_special_file_type) ==
    IF ~md.canon_ok THEN ShowFailed(<< >>)
    ELSE print_entry(md, path,
                     Line("special", path, special_type(p_special_file_type), 0, TRUE), << >>)

show_special(p_indent_width, md, path, p_special_file_type) ==
    IF ~file_name(md).some THEN ShowFailed(<< >>)
    ELSE print_entry(md, path,
                     Line("special", path, special_type(p_special_file_type),
                          p_indent_width, FALSE), << >>)

(***************************************************************************)
(* scan_path.  A frame of the stack is one call: the directory, its        *)
(* level, whether read_dir has been called yet, the items of the iterator  *)
(* not yet looked at, cur_entry_cnts and total_file_size.                  *)
(***************************************************************************)
Frame(path, level) ==
    [path |-> path, level |-> level, st |-> "call", entries |-> << >>,
     cur_entry_cnts |-> EntryCounter_new, total_file_size |-> 0]

\* recurse_allowed with the level compared by <= instead of <
recurse_allowed_off_by_one(p_level) ==
    get_option("ShowRecursive") /\ (max_recur_level = 0 \/ p_level <= max_recur_level)

\* recurse_allowed without the limit 0 standing for no limit
recurse_allowed_below_limit_only(p_level) ==
    get_option("ShowRecursive") /\ p_level < max_recur_level

\* recurse_allowed with the depth limit left out
recurse_allowed_unlimited(p_level) == get_option("ShowRecursive")

\* the condition under which scan_path and search_path recurse into a directory
recurse_allowed(p_level) ==
    get_option("ShowRecursive") /\ (max_recur_level = 0 \/ p_level < max_recur_level)

Iteration(cnts, size, outs, errs, recurse) ==
    [cnts |-> cnts, size |-> size, out |-> outs, err |-> errs, recurse |-> recurse]

\* one iteration of the loop of scan_path over the item path_os
scan_entry(cur_entry_cnts, total_file_size, p_level, path_os) ==
    LET metadata == fs[path_os]
        indent_width == INDENT_COL_WIDTH * p_level
        sft == special_file_type(metadata)
        abs == get_option("ShowAbsnoindent")
    IN  IF metadata.ftype = "err"
        THEN Iteration(cur_entry_cnts, total_file_size, << >>, << >>, FALSE)
        ELSE IF ~metadata.meta_ok
        THEN Iteration(cur_entry_cnts, total_file_size, << >>, << >>, FALSE)
        ELSE IF is_symlink(metadata)
        THEN LET c == inc_symlink_cnt(cur_entry_cnts, 1)
             IN  IF ~get_option("ShowSymlinks")
                 THEN Iteration(c, total_file_size, << >>, << >>, FALSE)
                 ELSE LET r == IF abs
                               THEN show_symlink_noindent(metadata, path_os, path_is_dir(metadata))
                               ELSE show_symlink(indent_width, metadata, path_os,
                                                 path_is_dir(metadata))
                      IN  Iteration(IF r.failed THEN dec_symlink_cnt(c, 1) ELSE c,
                                    total_file_size, r.out, r.err, FALSE)
        ELSE IF is_file(metadata) /\ sft = "NA"
        THEN LET c == inc_file_cnt(cur_entry_cnts, 1)
             IN  IF ~get_option("ShowFiles")
                 THEN Iteration(c, total_file_size + metadata.len, << >>, << >>, FALSE)
                 ELSE LET r == IF abs
                               THEN show_file_noindent(metadata, path_os, metadata.len)
                               ELSE show_file(indent_width, metadata, path_os)
                      IN  Iteration(IF r.failed THEN dec_file_cnt(c, 1) ELSE c,
                                    total_file_size, r.out, r.err, FALSE)
        ELSE IF is_dir(metadata)
        THEN LET c == inc_dir_cnt(cur_entry_cnts, 1)
                 r == IF abs THEN show_dir_noindent(metadata, path_os)
                      ELSE show_dir(indent_width, metadata, path_os)
             IN  IF r.failed
                 THEN Iteration(dec_dir_cnt(c, 1), total_file_size, r.out, r.err, FALSE)
                 ELSE Iteration(c, total_file_size, r.out, r.err, recurse_allowed(p_level))
        ELSE LET c == inc_special_cnt(cur_entry_cnts, 1)
             IN  IF ~get_option("ShowSpecial")
                 THEN Iteration(c, total_file_size, << >>, << >>, FALSE)
                 ELSE LET r == IF abs THEN show_special_noindent(metadata, path_os, sft)
                               ELSE show_special(indent_width, metadata, path_os, sft)
                      IN  Iteration(IF r.failed THEN dec_special_cnt(c, 1) ELSE c,
                                    total_file_size, r.out, r.err, FALSE)

\* the aggregate line of one kind
AggLine(t, p, sz, ind, n, time) ==
    [Line(t, p, sz, ind, FALSE) EXCEPT !.n = int_to_formatted_slice(n), !.time = time]

\* scan_aggregates with the line of the symlinks before the line of the files
scan_aggregates_symlinks_first(f, file_sz) ==
    LET indent_width == INDENT_COL_WIDTH * f.level
        c == f.cur_entry_cnts
        sz == IF get_option("ShowDirSize") THEN <<"-">> ELSE <<" ">>
        time == get_option("ShowLasttime")
    IN  IF get_option("ShowAbsnoindent") THEN << >>
        ELSE (IF ~get_option("ShowSymlinks") /\ c._num_symlinks # 0
              THEN <<AggLine("agg_symlinks", f.path, sz, indent_width, c._num_symlinks, time)>>
              ELSE << >>)
          \o (IF ~get_option("ShowFiles") /\ c._num_files # 0
              THEN <<AggLine("agg_files", f.path, file_sz, indent_width, c._num_files, time)>>
              ELSE << >>)
          \o (IF ~get_option("ShowSpecial") /\ c._num_special # 0
              THEN <<AggLine("agg_special", f.path, sz, indent_width, c._num_special, FALSE)>>
              ELSE << >>)

\* the lines scan_path prints after its loop, given the text its file_sz reads as
scan_aggregates(f, file_sz) ==
    LET indent_width == INDENT_COL_WIDTH * f.level
        c == f.cur_entry_cnts
        sz == IF get_option("ShowDirSize") THEN <<"-">> ELSE <<" ">>
        time == get_option("ShowLasttime")
    IN  IF get_option("ShowAbsnoindent") THEN << >>
        ELSE (IF ~get_option("ShowFiles") /\ c._num_files # 0
              THEN <<AggLine("agg_files", f.path, file_sz, indent_width, c._num_files, time)>>
              ELSE << >>)
          \o (IF ~get_option("ShowSymlinks") /\ c._num_symlinks # 0
              THEN <<AggLine("agg_symlinks", f.path, sz, indent_width, c._num_symlinks, time)>>
              ELSE << >>)
          \o (IF ~get_option("ShowSpecial") /\ c._num_special # 0
              THEN <<AggLine("agg_special", f.path, sz, indent_width, c._num_special, FALSE)>>
              ELSE << >>)

\* The texts file_sz can read as when the files line is printed: it is a slice
\* of BUFF taken before int_to_formatted_slice is called again for the count.
file_sz_texts(f) ==
    IF ~get_option("ShowDirSize") THEN {<< >>}
    ELSE IF ~get_option("ShowFiles") /\ f.cur_entry_cnts._num_files # 0
    THEN {int_to_formatted_slice(f.total_file_size),
          stale_slice(int_to_formatted_slice(f.total_file_size),
                      int_to_formatted_slice(f.cur_entry_cnts._num_files))}
    ELSE {int_to_formatted_slice(f.total_file_size)}

Summary(t, c) ==
    [t |-> t,
     file_cnt |-> int_to_formatted_slice(c._num_files),
     symlink_cnt |-> int_to_formatted_slice(c._num_symlinks),
     special_cnt |-> int_to_formatted_slice(c._num_special),
     dir_cnt |-> int_to_formatted_slice(c._num_dirs),
     total_cnt |-> int_to_formatted_slice(get_entry_cnt(c))]

\* ScanPathInit with a call of set_option in it
ScanPathInit_setting_option ==
    /\ pc = "scan_init"
    /\ pc' = "scan"
    /\ stack' = <<Frame(Root, 0)>>
    /\ entry_cnts_init' = EntryCounter_new
    /\ entry_cnts_full' = EntryCounter_new
    /\ OPTION_MASK' = OPTION_MASK \cup {"ShowFiles"}
    /\ UNCHANGED <<fs, max_recur_level, search_path, init_path, args, arg_i,
                   specify_recur_depth, specify_search_path, exit_status, out, err, probe, listed>>

\* scan_path_init up to its call of scan_path at level 0
ScanPathInit ==
    /\ pc = "scan_init"
    /\ pc' = "scan"
    /\ stack' = <<Frame(Root, 0)>>
    /\ entry_cnts_init' = EntryCounter_new
    /\ entry_cnts_full' = EntryCounter_new
    /\ UNCHANGED <<fs, OPTION_MASK, max_recur_level, search_path, init_path, args, arg_i,
                   specify_recur_depth, specify_search_path, exit_status, out, err, probe, listed>>

\* ScanReadDir with the error of a nested call returned by every caller in turn,
\* up to scan_path_init
ScanReadDir_propagating ==
    /\ pc = "scan"
    /\ stack # << >>
    /\ Head(stack).st = "call"
    /\ listed' = Append(listed, Head(stack).path)
    /\ LET f == Head(stack)
       IN  IF fs[f.path].list_ok
           THEN /\ stack' = <<[f EXCEPT !.st = "loop", !.entries = ReadDir(f.path)]>>
                             \o Tail(stack)
                /\ UNCHANGED <<pc, out, err>>
           ELSE /\ stack' = << >>
                /\ out' = Append(out, [t |-> "error_iterating", p |-> f.path])
                /\ pc' = "done"
                /\ UNCHANGED err
    /\ UNCHANGED <<fs, OPTION_MASK, max_recur_level, search_path, init_path, args, arg_i,
                   specify_recur_depth, specify_search_path, exit_status,
                   entry_cnts_init, entry_cnts_full, probe>>

\* scan_path: read_dir of the directory of the innermost call.  A failure returns
\* the error to the caller: scan_path_init prints it and returns, scan_path prints
\* it when errors are shown and goes on with its loop.
ScanReadDir ==
    /\ pc = "scan"
    /\ stack # << >>
    /\ Head(stack).st = "call"
    /\ listed' = Append(listed, Head(stack).path)
    /\ LET f == Head(stack)
       IN  IF fs[f.path].list_ok
           THEN /\ stack' = <<[f EXCEPT !.st = "loop", !.entries = ReadDir(f.path)]>>
                             \o Tail(stack)
                /\ UNCHANGED <<pc, out, err>>
           ELSE IF f.level = 0
           THEN /\ stack' = << >>
                /\ out' = Append(out, [t |-> "error_iterating", p |-> f.path])
                /\ pc' = "done"
                /\ UNCHANGED err
           ELSE /\ stack' = Tail(stack)
                /\ err' = IF get_option("ShowErrors")
                          THEN Append(err, ErrMsg("iterating", f.path))
                          ELSE err
                /\ UNCHANGED <<pc, out>>
    /\ UNCHANGED <<fs, OPTION_MASK, max_recur_level, search_path, init_path, args, arg_i,
                   specify_recur_depth, specify_search_path, exit_status,
                   entry_cnts_init, entry_cnts_full, probe>>

\* scan_path: one iteration of the loop, up to the recursive call if there is one
ScanEntry ==
    /\ pc = "scan"
    /\ stack # << >>
    /\ Head(stack).st = "loop"
    /\ Head(stack).entries # << >>
    /\ LET f == Head(stack)
           path_os == Head(f.entries)
           it == scan_entry(f.cur_entry_cnts, f.total_file_size, f.level, path_os)
           g == [f EXCEPT !.entries = Tail(f.entries), !.cur_entry_cnts = it.cnts,
                          !.total_file_size = it.size]
       IN  /\ stack' = (IF it.recurse THEN <<Frame(path_os, 1 + f.level)>> ELSE << >>)
                       \o <<g>> \o Tail(stack)
           /\ out' = out \o it.out
           /\ err' = err \o it.err
    /\ UNCHANGED <<fs, OPTION_MASK, max_recur_level, search_path, init_path, args, arg_i,
                   specify_recur_depth, specify_search_path, pc, exit_status,
                   entry_cnts_init, entry_cnts_full, probe, listed>>

\* scan_path after its loop: the aggregate lines, the two summaries, the return
ScanReturn ==
    /\ pc = "scan"
    /\ stack # << >>
    /\ Head(stack).st = "loop"
    /\ Head(stack).entries = << >>
    /\ LET f == Head(stack)
       IN  /\ \E file_sz \in file_sz_texts(f) : out' = out \o scan_aggregates(f, file_sz)
           /\ entry_cnts_init' = IF f.level = 0
                                 THEN merge_cnts(entry_cnts_init, f.cur_entry_cnts)
                                 ELSE entry_cnts_init
           /\ entry_cnts_full' = merge_cnts(entry_cnts_full, f.cur_entry_cnts)
           /\ stack' = Tail(stack)
    /\ UNCHANGED <<fs, OPTION_MASK, max_recur_level, search_path, init_path, args, arg_i,
                   specify_recur_depth, specify_search_path, pc, exit_status, err, probe, listed>>

\* scan_path_init after scan_path returned None: the summaries
ScanSummary ==
    /\ pc = "scan"
    /\ stack = << >>
    /\ out' = out \o <<Summary("summary_init", entry_cnts_init)>>
                  \o (IF get_option("ShowRecursive")
                      THEN <<Summary("summary_full", entry_cnts_full)>> ELSE << >>)
    /\ pc' = "done"
    /\ UNCHANGED <<fs, OPTION_MASK, max_recur_level, search_path, init_path, args, arg_i,
                   specify_recur_depth, specify_search_path, exit_status, stack,
                   entry_cnts_init, entry_cnts_full, err, probe, listed>>

NextScan == ScanPathInit \/ ScanReadDir \/ ScanEntry \/ ScanReturn \/ ScanSummary

(***************************************************************************)
(* search_path.  The name predicate first: Path::file_stem is the file     *)
(* name up to its last '.', or the whole name when it has no '.' or only   *)
(* a leading one; str::contains looks for the pattern at every offset.     *)
(***************************************************************************)
LastDot(name) ==
    LET dots == {k \in 1..Len(name) : name[k] = "."}
    IN  IF dots = {} THEN 0 ELSE CHOOSE k \in dots : \A j \in dots : j <= k

\* file_stem with the name cut at its first '.' instead of its last
file_stem_first_dot(md) ==
    IF ~file_name(md).some THEN None
    ELSE LET dots == {k \in 2..Len(md.name) : md.name[k] = "."}
         IN  IF dots = {} THEN Some(md.name)
             ELSE Some(SubSeq(md.name, 1, (CHOOSE k \in dots : \A j \in dots : k <= j) - 1))

file_stem(md) ==
    IF ~file_name(md).some THEN None
    ELSE LET k == LastDot(md.name)
         IN  IF k <= 1 THEN Some(md.name) ELSE Some(SubSeq(md.name, 1, k - 1))

contains(text, pat) ==
    \E k \in 0..(Len(text) - Len(pat)) : SubSeq(text, k + 1, k + Len(pat)) = pat

\* matches with every name taken to satisfy the predicate
matches_any_name(md, p_search_path) == Some(TRUE)

\* the value of `matches` in search_path; None where the loop continues instead
matches(md, p_search_path) ==
    IF get_option("SearchNoext")
    THEN IF ~file_stem(md).some THEN None
         ELSE Some(file_stem(md).val = p_search_path)
    ELSE IF ~file_name(md).some THEN None
         ELSE IF get_option("SearchExact") THEN Some(file_name(md).val = p_search_path)
         ELSE Some(contains(file_name(md).val, p_search_path))

SearchIteration(cnts, match, outs, errs, recurse) ==
    [cnts |-> cnts, match |-> match, out |-> outs, err |-> errs, recurse |-> recurse]

\* one iteration of the loop of search_path over the item path_os
search_entry(cur_entry_cnts, p_entry_cnts_match, p_level, path_os) ==
    LET metadata == fs[path_os]
        sft == special_file_type(metadata)
        m == matches(metadata, search_path)
        Skip == SearchIteration(cur_entry_cnts, p_entry_cnts_match, << >>, << >>, FALSE)
    IN  IF metadata.ftype = "err" THEN Skip
        ELSE IF ~metadata.meta_ok THEN Skip
        ELSE IF ~m.some THEN Skip
        ELSE IF is_symlink(metadata)
        THEN IF ~get_option("ShowSymlinks") \/ ~m.val
             THEN SearchIteration(inc_symlink_cnt(cur_entry_cnts, 1), p_entry_cnts_match,
                                  << >>, << >>, FALSE)
             ELSE LET r == show_symlink_noindent(metadata, path_os, path_is_dir(metadata))
                  IN  IF ~r.failed
                      THEN SearchIteration(inc_symlink_cnt(cur_entry_cnts, 1),
                                           inc_symlink_cnt(p_entry_cnts_match, 1),
                                           r.out, r.err, FALSE)
                      ELSE SearchIteration(cur_entry_cnts, p_entry_cnts_match,
                                           r.out, r.err, FALSE)
        ELSE IF is_file(metadata) /\ sft = "NA"
        THEN IF ~get_option("ShowFiles") \/ ~m.val
             THEN SearchIteration(inc_file_cnt(cur_entry_cnts, 1), p_entry_cnts_match,
                                  << >>, << >>, FALSE)
             ELSE LET r == show_file_noindent(metadata, path_os, metadata.len)
                  IN  IF ~r.failed
                      THEN SearchIteration(inc_file_cnt(cur_entry_cnts, 1),
                                           inc_file_cnt(p_entry_cnts_match, 1),
                                           r.out, r.err, FALSE)
                      ELSE SearchIteration(cur_entry_cnts, p_entry_cnts_match,
                                           r.out, r.err, FALSE)
        ELSE IF is_dir(metadata)
        THEN IF ~m.val
             THEN SearchIteration(inc_dir_cnt(cur_entry_cnts, 1), p_entry_cnts_match,
                                  << >>, << >>, recurse_allowed(p_level))
             ELSE LET r == show_dir_noindent(metadata, path_os)
                  IN  IF ~r.failed
                      THEN SearchIteration(inc_dir_cnt(cur_entry_cnts, 1),
                                           inc_dir_cnt(p_entry_cnts_match, 1),
                                           r.out, r.err, recurse_allowed(p_level))
                      ELSE SearchIteration(cur_entry_cnts, p_entry_cnts_match,
                                           r.out, r.err, recurse_allowed(p_level))
        ELSE IF ~get_option("ShowSpecial") \/ ~m.val
             THEN SearchIteration(inc_special_cnt(cur_entry_cnts, 1), p_entry_cnts_match,
                                  << >>, << >>, FALSE)
             ELSE LET r == show_special_noindent(metadata, path_os, sft)
                  IN  IF ~r.failed
                      THEN SearchIteration(inc_special_cnt(cur_entry_cnts, 1),
                                           inc_special_cnt(p_entry_cnts_match, 1),
                                           r.out, r.err, FALSE)
                      ELSE SearchIteration(cur_entry_cnts, p_entry_cnts_match,
                                           r.out, r.err, FALSE)

\* search_path_init up to its call of search_path at level 0
SearchPathInit ==
    /\ pc = "search_init"
    /\ pc' = "search"
    /\ stack' = <<Frame(Root, 0)>>
    /\ entry_cnts_init' = EntryCounter_new
    /\ entry_cnts_full' = EntryCounter_new
    /\ UNCHANGED <<fs, OPTION_MASK, max_recur_level, search_path, init_path, args, arg_i,
                   specify_recur_depth, specify_search_path, exit_status, out, err, probe, listed>>

\* SearchReadDir with the error of a nested call ending the loop of its caller
SearchReadDir_aborting_caller ==
    /\ pc = "search"
    /\ stack # << >>
    /\ Head(stack).st = "call"
    /\ listed' = Append(listed, Head(stack).path)
    /\ LET f == Head(stack)
       IN  IF fs[f.path].list_ok
           THEN /\ stack' = <<[f EXCEPT !.st = "loop", !.entries = ReadDir(f.path)]>>
                             \o Tail(stack)
                /\ UNCHANGED <<pc, err>>
           ELSE /\ stack' = IF f.level = 0 THEN Tail(stack) ELSE Tail(Tail(stack))
                /\ err' = IF get_option("ShowErrors")
                          THEN Append(err, ErrMsg("iterating", f.path))
                          ELSE err
                /\ pc' = IF f.level = 0 THEN "done" ELSE pc
    /\ UNCHANGED <<fs, OPTION_MASK, max_recur_level, search_path, init_path, args, arg_i,
                   specify_recur_depth, specify_search_path, exit_status,
                   entry_cnts_init, entry_cnts_full, out, probe>>

\* search_path: read_dir of the directory of the innermost call.  A failure returns
\* the error to the caller, which prints it when errors are shown; search_path_init
\* then returns, search_path goes on with its loop.
SearchReadDir ==
    /\ pc = "search"
    /\ stack # << >>
    /\ Head(stack).st = "call"
    /\ listed' = Append(listed, Head(stack).path)
    /\ LET f == Head(stack)
       IN  IF fs[f.path].list_ok
           THEN /\ stack' = <<[f EXCEPT !.st = "loop", !.entries = ReadDir(f.path)]>>
                             \o Tail(stack)
                /\ UNCHANGED <<pc, err>>
           ELSE /\ stack' = Tail(stack)
                /\ err' = IF get_option("ShowErrors")
                          THEN Append(err, ErrMsg("iterating", f.path))
                          ELSE err
                /\ pc' = IF f.level = 0 THEN "done" ELSE pc
    /\ UNCHANGED <<fs, OPTION_MASK, max_recur_level, search_path, init_path, args, arg_i,
                   specify_recur_depth, specify_search_path, exit_status,
                   entry_cnts_init, entry_cnts_full, out, probe>>

\* search_path: one iteration of the loop, up to the recursive call if there is one
SearchEntry ==
    /\ pc = "search"
    /\ stack # << >>
    /\ Head(stack).st = "loop"
    /\ Head(stack).entries # << >>
    /\ LET f == Head(stack)
           path_os == Head(f.entries)
           it == search_entry(f.cur_entry_cnts, entry_cnts_init, f.level, path_os)
           g == [f EXCEPT !.entries = Tail(f.entries), !.cur_entry_cnts = it.cnts]
       IN  /\ stack' = (IF it.recurse THEN <<Frame(path_os, 1 + f.level)>> ELSE << >>)
                       \o <<g>> \o Tail(stack)
           /\ entry_cnts_init' = it.match
           /\ out' = out \o it.out
           /\ err' = err \o it.err
    /\ UNCHANGED <<fs, OPTION_MASK, max_recur_level, search_path, init_path, args, arg_i,
                   specify_recur_depth, specify_search_path, pc, exit_status,
                   entry_cnts_full, probe, listed>>

\* search_path after its loop: the traversed counts, the return
SearchReturn ==
    /\ pc = "search"
    /\ stack # << >>
    /\ Head(stack).st = "loop"
    /\ Head(stack).entries = << >>
    /\ entry_cnts_full' = merge_cnts(entry_cnts_full, Head(stack).cur_entry_cnts)
    /\ stack' = Tail(stack)
    /\ UNCHANGED <<fs, OPTION_MASK, max_recur_level, search_path, init_path, args, arg_i,
                   specify_recur_depth, specify_search_path, pc, exit_status,
                   entry_cnts_init, out, err, probe, listed>>

\* search_path_init after search_path returned None: the two summaries
SearchSummary ==
    /\ pc = "search"
    /\ stack = << >>
    /\ out' = out \o <<Summary("summary_match", entry_cnts_init),
                       Summary("summary_traversal", entry_cnts_full)>>
    /\ pc' = "done"
    /\ UNCHANGED <<fs, OPTION_MASK, max_recur_level, search_path, init_path, args, arg_i,
                   specify_recur_depth, specify_search_path, exit_status, stack,
                   entry_cnts_init, entry_cnts_full, err, probe, listed>>

NextSearch == SearchPathInit \/ SearchReadDir \/ SearchEntry \/ SearchReturn \/ SearchSummary

(***************************************************************************)
(* main: the loop over the command line, one argument per step, then the   *)
(* dispatch to the help text, search_path_init or scan_path_init.          *)
(***************************************************************************)
Arg_h == <<"-", "h">>
Arg_help == <<"-", "-", "h", "e", "l", "p">>
Arg_e == <<"-", "e">>
Arg_show_err == <<"-", "-", "s", "h", "o", "w", "-", "e", "r", "r">>
Arg_r == <<"-", "r">>
Arg_recursive == <<"-", "-", "r", "e", "c", "u", "r", "s", "i", "v", "e">>
Arg_f == <<"-", "f">>
Arg_files == <<"-", "-", "f", "i", "l", "e", "s">>
Arg_l == <<"-", "l">>
Arg_symlinks == <<"-", "-", "s", "y", "m", "l", "i", "n", "k", "s">>
Arg_s == <<"-", "s">>
Arg_special == <<"-", "-", "s", "p", "e", "c", "i", "a", "l">>
Arg_d == <<"-", "d">>
Arg_dir_size == <<"-", "-", "d", "i", "r", "-", "s", "i", "z", "e">>
Arg_a == <<"-", "a">>
Arg_abs == <<"-", "-", "a", "b", "s">>
Arg_S == <<"-", "S">>
Arg_search == <<"-", "-", "s", "e", "a", "r", "c", "h">>
Arg_p == <<"-", "p">>
Arg_permissions == <<"-", "-", "p", "e", "r", "m", "i", "s", "s", "i", "o", "n", "s">>
Arg_t == <<"-", "t">>
Arg_modification_time == <<"-", "-", "m", "o", "d", "i", "f", "i", "c", "a", "t", "i", "o", "n", "-", "t", "i", "m", "e">>
Arg_search_noext == <<"-", "-", "s", "e", "a", "r", "c", "h", "-", "n", "o", "e", "x", "t">>
Arg_contains == <<"-", "-", "c", "o", "n", "t", "a", "i", "n", "s">>

set_option(mask, p_bit) == mask \cup {p_bit}
\* clear_option leaving the bit as it is
clear_option_kept(mask, p_bit) == mask

clear_option(mask, p_bit) == mask \ {p_bit}

\* str::parse::<u64>: decimal digits after an optional '+'
parse_u64(text) ==
    LET body == IF Len(text) > 0 /\ text[1] = "+" THEN Tail(text) ELSE text
        digit(c) == CHOOSE d \in 0..9 : Digit(d) = c
        value[k \in 0..Len(body)] == IF k = 0 THEN 0 ELSE 10 * value[k - 1] + digit(body[k])
    IN  IF Len(body) = 0 \/ \E k \in 1..Len(body) : body[k] \notin {Digit(d) : d \in 0..9}
        THEN None
        ELSE Some(value[Len(body)])

\* exit statuses: process::exit(-1), a panic, process::exit(0)
EXIT_FAILURE == 255
EXIT_PANIC == 101
EXIT_OK == 0

Msg(t, arg) == [t |-> t, arg |-> arg]

\* the variables of main as one record
MainVars == [mask |-> OPTION_MASK, max |-> max_recur_level, search_path |-> search_path,
             init_path |-> init_path, specify_recur_depth |-> specify_recur_depth,
             specify_search_path |-> specify_search_path, exit |-> exit_status,
             out |-> << >>]

\* search_flag without the check of the two other modes
search_flag_unchecked(m, arg, is_last, bit) ==
    IF is_last
    THEN [m EXCEPT !.specify_recur_depth = FALSE, !.specify_search_path = TRUE,
                   !.mask = set_option(m.mask, bit),
                   !.exit = Some(EXIT_FAILURE), !.out = <<Msg("no_search_pattern", arg)>>]
    ELSE [m EXCEPT !.specify_recur_depth = FALSE, !.specify_search_path = TRUE,
                   !.mask = set_option(m.mask, bit)]

\* a search flag: the check of the two other modes, the option, the check that an
\* argument follows
search_flag(m, arg, is_last, bit) ==
    IF (m.mask \cap {"SearchExact", "SearchNoext", "SearchContains"}) \ {bit} # {}
    THEN [m EXCEPT !.specify_recur_depth = FALSE, !.specify_search_path = FALSE,
                   !.exit = Some(EXIT_FAILURE), !.out = <<Msg("one_search_mode", arg)>>]
    ELSE IF is_last
    THEN [m EXCEPT !.specify_recur_depth = FALSE, !.specify_search_path = TRUE,
                   !.mask = set_option(m.mask, bit),
                   !.exit = Some(EXIT_FAILURE), !.out = <<Msg("no_search_pattern", arg)>>]
    ELSE [m EXCEPT !.specify_recur_depth = FALSE, !.specify_search_path = TRUE,
                   !.mask = set_option(m.mask, bit)]

\* one iteration of the loop of main, on the argument arg; is_last: no argument follows
main_arg(m, arg, is_last) ==
    LET flag(bit) == [m EXCEPT !.specify_recur_depth = FALSE, !.specify_search_path = FALSE,
                               !.mask = set_option(m.mask, bit)]
    IN  IF Len(arg) <= 0
        THEN [m EXCEPT !.exit = Some(EXIT_PANIC), !.out = <<Msg("ignoring_length_0", arg)>>]
        ELSE IF arg[1] # "-"
        THEN IF m.specify_recur_depth
             THEN LET depth == parse_u64(arg)
                  IN  IF depth.some
                      THEN IF depth.val <= 0
                           THEN [m EXCEPT !.specify_recur_depth = FALSE, !.max = depth.val,
                                          !.mask = clear_option(m.mask, "ShowRecursive"),
                                          !.out = <<Msg("depth_not_positive", arg)>>]
                           ELSE [m EXCEPT !.specify_recur_depth = FALSE, !.max = depth.val]
                      ELSE [m EXCEPT !.specify_recur_depth = FALSE,
                                     !.mask = clear_option(m.mask, "ShowRecursive"),
                                     !.out = <<Msg("depth_not_integer", arg)>>]
             ELSE IF m.specify_search_path
             THEN [m EXCEPT !.search_path = arg]
             ELSE [m EXCEPT !.init_path = IF Len(arg) > MAX_PATH_LEN
                                          THEN SubSeq(arg, 1, MAX_PATH_LEN) ELSE arg]
        ELSE IF arg = Arg_h \/ arg = Arg_help THEN flag("Help")
        ELSE IF arg = Arg_e \/ arg = Arg_show_err THEN flag("ShowErrors")
        ELSE IF arg = Arg_r \/ arg = Arg_recursive
        THEN [flag("ShowRecursive") EXCEPT !.specify_recur_depth = TRUE]
        ELSE IF arg = Arg_f \/ arg = Arg_files THEN flag("ShowFiles")
        ELSE IF arg = Arg_l \/ arg = Arg_symlinks THEN flag("ShowSymlinks")
        ELSE IF arg = Arg_s \/ arg = Arg_special THEN flag("ShowSpecial")
        ELSE IF arg = Arg_d \/ arg = Arg_dir_size THEN flag("ShowDirSize")
        ELSE IF arg = Arg_a \/ arg = Arg_abs THEN flag("ShowAbsnoindent")
        ELSE IF arg = Arg_S \/ arg = Arg_search THEN search_flag(m, arg, is_last, "SearchExact")
        ELSE IF arg = Arg_search_noext THEN search_flag(m, arg, is_last, "SearchNoext")
        ELSE IF arg = Arg_contains THEN search_flag(m, arg, is_last, "SearchContains")
        ELSE IF arg = Arg_p \/ arg = Arg_permissions THEN flag("ShowPermissions")
        ELSE IF arg = Arg_t \/ arg = Arg_modification_time THEN flag("ShowLasttime")
        ELSE [m EXCEPT !.specify_recur_depth = FALSE, !.specify_search_path = FALSE,
                       !.out = <<Msg("ignoring_unknown", arg)>>]

MainArg ==
    /\ pc = "main"
    /\ arg_i <= Len(args)
    /\ LET m == main_arg(MainVars, args[arg_i], Len(args) + 1 <= arg_i + 1)
       IN  /\ OPTION_MASK' = m.mask
           /\ max_recur_level' = m.max
           /\ search_path' = m.search_path
           /\ init_path' = m.init_path
           /\ specify_recur_depth' = m.specify_recur_depth
           /\ specify_search_path' = m.specify_search_path
           /\ exit_status' = m.exit
           /\ out' = out \o m.out
           /\ pc' = IF m.exit = Running THEN "main" ELSE "exit"
    /\ arg_i' = arg_i + 1
    /\ UNCHANGED <<fs, args, stack, entry_cnts_init, entry_cnts_full, err, probe, listed>>

\* main after the loop
MainDispatch ==
    /\ pc = "main"
    /\ arg_i > Len(args)
    /\ IF get_option("Help")
       THEN /\ out' = Append(out, Msg("usage", << >>))
            /\ exit_status' = Some(EXIT_OK)
            /\ pc' = "exit"
       ELSE /\ pc' = IF get_option("SearchExact") \/ get_option("SearchNoext")
                        \/ get_option("SearchContains")
                     THEN "search_init" ELSE "scan_init"
            /\ UNCHANGED <<out, exit_status>>
    /\ UNCHANGED <<fs, OPTION_MASK, max_recur_level, search_path, init_path, args, arg_i,
                   specify_recur_depth, specify_search_path, stack,
                   entry_cnts_init, entry_cnts_full, err, probe, listed>>


(***************************************************************************)
(* Families of file systems the specifications start from.  A shape gives, *)
(* per level below the root, the number w of entries a directory of that   *)
(* level can have, the entries without content (leaf) and the listable     *)
(* directories (dir) an entry can be; only the first wd entries of a       *)
(* directory can have content of their own.                                *)
(***************************************************************************)
RECURSIVE SubTrees(_, _)
RECURSIVE LevelTrees(_, _, _)

ChildTrees(p, i, S) ==
    LET c == Append(p, i)
        V == S[Len(c)]
    IN  {EmptyFs} \cup {c :> v : v \in V.leaf}
        \cup {(c :> v) @@ t : v \in V.dir, t \in IF i <= V.wd THEN SubTrees(c, S) ELSE {EmptyFs}}

LevelTrees(p, i, S) ==
    IF i > S[Len(p) + 1].w THEN {EmptyFs}
    ELSE {a @@ b : a \in ChildTrees(p, i, S), b \in LevelTrees(p, i + 1, S)}

SubTrees(p, S) == IF Len(p) >= Len(S) THEN {EmptyFs} ELSE LevelTrees(p, 1, S)

Level(w, wd, leaf, dir) == [w |-> w, wd |-> wd, leaf |-> leaf, dir |-> dir]

DefaultName == <<"e">>
RootDir == Entry("dir", <<".">>, 1)

FileLens == {n * LenUnit : n \in 1..MaxLenUnits}
Files == {Entry("file", DefaultName, n) : n \in FileLens}
SymlinkToFile == [Entry("symlink", DefaultName, 1) EXCEPT !.t_ftype = "file", !.t_len = LenUnit]
SymlinkToDir == [Entry("symlink", DefaultName, 1) EXCEPT !.t_ftype = "dir"]
DanglingSymlink ==
    [Entry("symlink", DefaultName, 1) EXCEPT !.t_ftype = "none", !.t_len = 0, !.canon_ok = FALSE]
Fifo == Entry("fifo", DefaultName, 0)
Dir == Entry("dir", DefaultName, 1)
UnlistableDir == [Dir EXCEPT !.list_ok = FALSE]
NoMetaFile == [Entry("file", DefaultName, LenUnit) EXCEPT !.meta_ok = FALSE]
NoMetaDir == [Dir EXCEPT !.meta_ok = FALSE]
ErrItem == [Entry("err", DefaultName, 0) EXCEPT !.meta_ok = FALSE, !.canon_ok = FALSE]

FsFamily(roots, S) ==
    UNION {{(Root :> r) @@ t : t \in IF r.list_ok THEN SubTrees(Root, S) ELSE {EmptyFs}}
           : r \in roots}

NoProbe == [fn |-> "none"]

\* the variables of main, before the first argument is looked at
MainInit ==
    /\ init_path = <<".">>
    /\ search_path = << >>
    /\ specify_recur_depth = FALSE
    /\ specify_search_path = FALSE
    /\ arg_i = 1
    /\ exit_status = Running

\* the variables of the traversals, before scan_path_init or search_path_init runs
TraversalIdle ==
    /\ stack = << >>
    /\ entry_cnts_init = EntryCounter_new
    /\ entry_cnts_full = EntryCounter_new
    /\ out = << >>
    /\ err = << >>
    /\ listed = << >>

(***************************************************************************)
(* Spec: scan_path_init on a tree of two levels under every combination of *)
(* the display flags, with and without recursion.                          *)
(***************************************************************************)
NoCanonDir == [Dir EXCEPT !.canon_ok = FALSE]
UnlistableRoot == [RootDir EXCEPT !.list_ok = FALSE]

ScanShape ==
    <<Level(2, 1, Files \cup {SymlinkToDir, DanglingSymlink, Fifo, UnlistableDir, NoMetaFile},
            {Dir, NoCanonDir}),
      Level(2, 0, {Entry("file", DefaultName, LenUnit), DanglingSymlink, UnlistableDir}, {Dir})>>

DisplayFlags == {"ShowFiles", "ShowSymlinks", "ShowSpecial", "ShowAbsnoindent", "ShowDirSize"}

\* the recursion settings main can leave behind: off, or on with a limit (0: none)
RecursionSettings(limits) ==
    {[flags |-> {}, max |-> 0]} \cup {[flags |-> {"ShowRecursive"}, max |-> n] : n \in limits}

InitScan ==
    /\ fs \in FsFamily({RootDir, UnlistableRoot}, ScanShape)
    /\ \E d \in SUBSET DisplayFlags, r \in RecursionSettings(0..1) :
        /\ OPTION_MASK = d \cup r.flags
        /\ max_recur_level = r.max
    /\ args = << >>
    /\ MainInit
    /\ TraversalIdle
    /\ pc = "scan_init"
    /\ probe = NoProbe

Spec == InitScan /\ [][NextScan]_vars

(***************************************************************************)
(* SpecArgs: main on every command line of at most MaxArgs arguments taken *)
(* from ArgTokens, and the traversal it starts, in a directory of one      *)
(* file.                                                                   *)
(***************************************************************************)
MaxArgs == 4

ArgTokens == {Arg_S, Arg_search_noext, Arg_contains, Arg_r, Arg_f, Arg_h,
              <<"f", "o", "o">>, <<"2">>, <<"0">>, << >>}

ArgLists == UNION {[1..n -> ArgTokens] : n \in 0..MaxArgs}

InitArgs ==
    /\ args \in ArgLists
    /\ fs = (Root :> RootDir) @@ (<<1>> :> Entry("file", <<"f", "o", "o">>, LenUnit))
    /\ OPTION_MASK = {}
    /\ max_recur_level = 0
    /\ MainInit
    /\ TraversalIdle
    /\ pc = "main"
    /\ probe = NoProbe

NextArgs == MainArg \/ MainDispatch \/ NextScan \/ NextSearch

SpecArgs == InitArgs /\ [][NextArgs]_vars

(***************************************************************************)
(* SpecMatch: the name predicate of search_path on a name and a pattern,   *)
(* under each search mode.                                                 *)
(***************************************************************************)
MaxNameLen == 3
MaxPatLen == 2

Texts(alphabet, n) == UNION {[1..k -> alphabet] : k \in 0..n}

MatchNames ==
    (Texts({"f", "o", "."}, MaxNameLen) \ {<< >>, <<".">>, <<".", ".">>})
    \cup {<<"f", "o", "o", ".", "t", "x", "t">>, <<"f", "o", "o", ".", "p", "n", "g">>,
          <<"m", "y", "f", "o", "o", "b", "a", "r">>, <<"f", "o", "o">>,
          <<"f", "o", "o", ".", "t", "a", "r", ".", "g", "z">>}

MatchPatterns ==
    Texts({"f", "o", "."}, MaxPatLen)
    \cup {<<"f", "o", "o">>, <<"f", "o", "o", ".", "t", "x", "t">>,
          <<"f", "o", "o", ".", "t", "a", "r">>}

InitMatch ==
    /\ fs = (Root :> RootDir)
    /\ OPTION_MASK \in {{"SearchExact"}, {"SearchNoext"}, {"SearchContains"}}
    /\ max_recur_level = 0
    /\ args = << >>
    /\ MainInit
    /\ TraversalIdle
    /\ pc = "match"
    /\ probe = NoProbe

MatchCall ==
    /\ pc = "match"
    /\ probe = NoProbe
    /\ \E name \in MatchNames, pat \in MatchPatterns :
        probe' = [fn |-> "matches", name |-> name, pat |-> pat,
                  ret |-> matches(Entry("file", name, 0), pat)]
    /\ UNCHANGED <<fs, OPTION_MASK, max_recur_level, search_path, init_path, args, arg_i,
                   specify_recur_depth, specify_search_path, pc, exit_status, stack,
                   entry_cnts_init, entry_cnts_full, out, err, listed>>

NextMatch == MatchCall

SpecMatch == InitMatch /\ [][NextMatch]_vars

(***************************************************************************)
(* SpecFlat: scan_path_init with no option set on a directory of up to     *)
(* FlatWidth entries.                                                      *)
(***************************************************************************)
FlatWidth == 6

FlatShape ==
    <<Level(FlatWidth, 0, {Entry("file", DefaultName, LenUnit), SymlinkToDir}, {Dir})>>

InitFlat ==
    /\ fs \in FsFamily({RootDir}, FlatShape)
    /\ OPTION_MASK = {}
    /\ max_recur_level = 0
    /\ args = << >>
    /\ MainInit
    /\ TraversalIdle
    /\ pc = "scan_init"
    /\ probe = NoProbe

SpecFlat == InitFlat /\ [][NextScan]_vars

(***************************************************************************)
(* SpecDepth: scan_path_init and search_path_init with recursion on a tree *)
(* of three levels, under every depth limit up to MaxLevel.                *)
(***************************************************************************)
DepthLevel(wd) == Level(2, wd, {Entry("file", DefaultName, LenUnit), UnlistableDir, NoMetaDir},
                        {Dir, NoCanonDir})

DepthShape == <<DepthLevel(1), DepthLevel(1), DepthLevel(0)>>

InitDepth ==
    /\ fs \in FsFamily({RootDir}, DepthShape)
    /\ \E d \in SUBSET {"ShowAbsnoindent"}, r \in RecursionSettings(0..MaxLevel),
          s \in {{}, {"SearchContains"}} :
        /\ OPTION_MASK = d \cup r.flags \cup s
        /\ max_recur_level = r.max
        /\ pc = IF s = {} THEN "scan_init" ELSE "search_init"
    /\ args = << >>
    /\ MainInit
    /\ TraversalIdle
    /\ probe = NoProbe

SpecDepth == InitDepth /\ [][NextScan \/ NextSearch]_vars

(***************************************************************************)
(* SpecSize: calc_dir_size called, as show_dir calls it, on a directory    *)
(* entry whose metadata was read.                                          *)
(***************************************************************************)
SizeShape ==
    <<Level(1, 1, {}, {Dir}),
      Level(2, 2, Files \cup {SymlinkToFile, SymlinkToDir, Fifo, UnlistableDir, NoMetaFile,
                              ErrItem}, {Dir}),
      Level(2, 0, {Entry("file", DefaultName, LenUnit), SymlinkToFile, UnlistableDir,
                   NoMetaFile, ErrItem}, {Dir})>>

InitSize ==
    /\ fs \in FsFamily({RootDir}, SizeShape)
    /\ OPTION_MASK \in {{}, {"ShowErrors"}}
    /\ max_recur_level = 0
    /\ args = << >>
    /\ MainInit
    /\ TraversalIdle
    /\ pc = "size"
    /\ probe = NoProbe

SizeCall ==
    /\ pc = "size"
    /\ \E d \in DOMAIN fs \ {Root} :
        /\ fs[d].meta_ok /\ is_dir(fs[d])
        /\ probe' = [fn |-> "calc_dir_size", arg |-> d, ret |-> calc_dir_size(d, d)]
    /\ UNCHANGED <<fs, OPTION_MASK, max_recur_level, search_path, init_path, args, arg_i,
                   specify_recur_depth, specify_search_path, pc, exit_status, stack,
                   entry_cnts_init, entry_cnts_full, out, err, listed>>

NextSize == SizeCall

SpecSize == InitSize /\ [][NextSize]_vars

(***************************************************************************)
(* SpecWalk: scan_path_init and search_path_init on a tree of two levels   *)
(* with symlinks, special files and every kind of failure, under every     *)
(* combination of the flags that decide what is shown and what is          *)
(* reported.  SpecWalkFair adds that the process keeps taking steps.       *)
(***************************************************************************)
WalkShape ==
    <<Level(2, 1, {Entry("file", DefaultName, LenUnit), SymlinkToDir, DanglingSymlink, Fifo,
                   UnlistableDir, NoMetaFile, ErrItem}, {Dir}),
      Level(2, 0, {Entry("file", DefaultName, LenUnit), DanglingSymlink, UnlistableDir}, {Dir})>>

WalkFlags == {"ShowFiles", "ShowSymlinks", "ShowSpecial", "ShowAbsnoindent", "ShowErrors"}

\* what main can leave behind for a traversal: a scan, or a search and its pattern
WalkModes ==
    {[flags |-> {}, pat |-> << >>, pc |-> "scan_init"],
     [flags |-> {"SearchContains"}, pat |-> DefaultName, pc |-> "search_init"],
     [flags |-> {"SearchExact"}, pat |-> <<"x">>, pc |-> "search_init"]}

InitWalk ==
    /\ fs \in FsFamily({RootDir, UnlistableRoot}, WalkShape)
    /\ args = << >>
    /\ init_path = <<".">>
    /\ specify_recur_depth = FALSE
    /\ specify_search_path = FALSE
    /\ arg_i = 1
    /\ exit_status = Running
    /\ TraversalIdle
    /\ probe = NoProbe
    /\ \E d \in SUBSET WalkFlags, r \in RecursionSettings({0}), m \in WalkModes :
        /\ OPTION_MASK = d \cup r.flags \cup m.flags
        /\ max_recur_level = r.max
        /\ search_path = m.pat
        /\ pc = m.pc

NextWalk == NextScan \/ NextSearch

SpecWalk == InitWalk /\ [][NextWalk]_vars

SpecWalkFair == InitWalk /\ [][NextWalk]_vars /\ WF_vars(NextWalk)

(***************************************************************************)
(* SpecFind: search_path_init for the pattern 'e' on a tree of three       *)
(* levels whose entries have names that match and names that do not, with  *)
(* the pattern taken exactly or as a part of the name, under every         *)
(* combination of the flags of the kinds and every recursion setting.      *)
(* SpecFindFair adds that the process keeps taking steps.                  *)
(***************************************************************************)
OtherName == <<"x">>
LongerName == <<"e", "x">>

Named(md, name) == [md EXCEPT !.name = name]

FindShape ==
    <<Level(2, 1, {Entry("file", DefaultName, LenUnit), Entry("file", OtherName, LenUnit),
                   Named(SymlinkToDir, LongerName), Fifo, UnlistableDir, NoMetaFile},
            {Dir, Named(Dir, OtherName), NoCanonDir}),
      Level(2, 1, {Entry("file", DefaultName, LenUnit), Entry("file", OtherName, LenUnit)},
            {Named(Dir, OtherName)}),
      Level(1, 0, {Entry("file", DefaultName, LenUnit)}, {})>>

FindFlags == {"ShowFiles", "ShowSymlinks", "ShowSpecial"}

InitFind ==
    /\ fs \in FsFamily({RootDir}, FindShape)
    /\ args = << >>
    /\ init_path = <<".">>
    /\ search_path = DefaultName
    /\ specify_recur_depth = FALSE
    /\ specify_search_path = FALSE
    /\ arg_i = 1
    /\ exit_status = Running
    /\ TraversalIdle
    /\ probe = NoProbe
    /\ pc = "search_init"
    /\ \E d \in SUBSET FindFlags, r \in RecursionSettings(0..MaxLevel),
          s \in {"SearchExact", "SearchContains"} :
        /\ OPTION_MASK = d \cup r.flags \cup {s}
        /\ max_recur_level = r.max

NextFind == NextSearch

SpecFind == InitFind /\ [][NextFind]_vars

SpecFindFair == InitFind /\ [][NextFind]_vars /\ WF_vars(NextFind)

(***************************************************************************)
(* SpecNest: scan_path_init and search_path_init on a tree of three levels *)
(* of directories with symlinks to directories at every level, with and    *)
(* without the directory sizes, under every recursion setting.  All the    *)
(* program asks of the target of a symlink is whether it is a directory,   *)
(* so a symlink to a directory stands for one to an ancestor as well.      *)
(***************************************************************************)
NestShape ==
    <<Level(2, 1, {Entry("file", DefaultName, LenUnit), SymlinkToDir, UnlistableDir}, {Dir}),
      Level(2, 1, {Entry("file", DefaultName, LenUnit), SymlinkToDir}, {Dir}),
      Level(1, 0, {SymlinkToDir}, {Dir})>>

NestFlags == {"ShowDirSize", "ShowSymlinks"}

InitNest ==
    /\ fs \in FsFamily({RootDir}, NestShape)
    /\ args = << >>
    /\ MainInit
    /\ TraversalIdle
    /\ probe = NoProbe
    /\ \E d \in SUBSET NestFlags, r \in RecursionSettings(0..MaxLevel),
          s \in {{}, {"SearchContains"}} :
        /\ OPTION_MASK = d \cup r.flags \cup s
        /\ max_recur_level = r.max
        /\ pc = IF s = {} THEN "scan_init" ELSE "search_init"

NextNest == NextScan \/ NextSearch

SpecNest == InitNest /\ [][NextNest]_vars

(***************************************************************************)
(* SpecFmt: int_to_formatted_slice called on a u64 given by its decimal    *)
(* digits: every number up to MaxSmall, the powers of ten and of two of    *)
(* the range and their neighbours, the largest value.                      *)
(***************************************************************************)
MaxSmall == 1200

DigitVal(ch) == CHOOSE d \in 0..9 : Digit(d) = ch

RECURSIVE DigitsOf(_)
DigitsOf(n) == IF n < 10 THEN <<Digit(n)>> ELSE Append(DigitsOf(n \div 10), Digit(n % 10))

Repeat(ch, n) == [k \in 1..n |-> ch]

U64_MAX == <<"1", "8", "4", "4", "6", "7", "4", "4", "0", "7", "3", "7", "0", "9", "5", "5",
             "1", "6", "1", "5">>

FmtInputs ==
    {DigitsOf(n) : n \in 0..MaxSmall}
    \cup {<<"1">> \o Repeat("0", k) : k \in 1..19}
    \cup {Repeat("9", k) : k \in 1..19}
    \cup {<<"1">> \o Repeat("0", k - 1) \o <<"1">> : k \in 1..19}
    \cup {U64_MAX,
          <<"9", "2", "2", "3", "3", "7", "2", "0", "3", "6", "8", "5", "4", "7", "7", "5",
            "8", "0", "8">>,
          <<"4", "2", "9", "4", "9", "6", "7", "2", "9", "6">>}

\* the u64 the decimal digits stand for
ToWide(ds) ==
    LET padded == Repeat("0", 4 * WideLen - Len(ds)) \o ds
    IN  [i \in 1..WideLen |->
            1000 * DigitVal(padded[4 * i - 3]) + 100 * DigitVal(padded[4 * i - 2])
            + 10 * DigitVal(padded[4 * i - 1]) + DigitVal(padded[4 * i])]

InitFmt ==
    /\ fs = (Root :> RootDir)
    /\ OPTION_MASK = {}
    /\ max_recur_level = 0
    /\ args = << >>
    /\ MainInit
    /\ TraversalIdle
    /\ pc = "fmt"
    /\ probe = NoProbe

FmtCall ==
    /\ pc = "fmt"
    /\ probe = NoProbe
    /\ \E ds \in FmtInputs :
        probe' = [fn |-> "int_to_formatted_slice", n |-> ds,
                  ret |-> int_to_formatted_slice_u64(ToWide(ds))]
    /\ UNCHANGED <<fs, OPTION_MASK, max_recur_level, search_path, init_path, args, arg_i,
                   specify_recur_depth, specify_search_path, pc, exit_status, stack,
                   entry_cnts_init, entry_cnts_full, out, err, listed>>

NextFmt == FmtCall

SpecFmt == InitFmt /\ [][NextFmt]_vars

(***************************************************************************)
(* What the file system holds, stated on its own: the entries of a         *)
(* directory, the entries below it, the kind of an entry, sums of lengths. *)
(***************************************************************************)
ChildrenOf(d) == {q \in DOMAIN fs : Len(q) = Len(d) + 1 /\ Parent(q) = d}

Below(d) == {q \in DOMAIN fs : Len(q) > Len(d) /\ SubSeq(q, 1, Len(d)) = d}

\* every directory strictly between d and q is a directory, not a symlink
ThroughRealDirs(d, q) ==
    \A k \in (Len(d) + 1)..(Len(q) - 1) : fs[SubSeq(q, 1, k)].ftype = "dir"

RealBelow(d) == {q \in Below(d) : ThroughRealDirs(d, q)}

\* the entry exists as an item with readable metadata
Readable(q) == fs[q].ftype # "err" /\ fs[q].meta_ok

KindOf(q) ==
    IF fs[q].ftype = "symlink" THEN "symlink"
    ELSE IF fs[q].ftype = "file" THEN "file"
    ELSE IF fs[q].ftype = "dir" THEN "dir"
    ELSE "special"

OfKind(d, kind) == {q \in ChildrenOf(d) : Readable(q) /\ KindOf(q) = kind}

RECURSIVE SumLen(_)
SumLen(S) == IF S = {} THEN 0
             ELSE LET q == CHOOSE x \in S : TRUE IN fs[q].len + SumLen(S \ {q})

\* the number a text of digits and thousands separators stands for; -1 if it is none
ParseFormatted(text) ==
    LET digits == {k \in 1..Len(text) : text[k] # ","}
        val[k \in 0..Len(text)] ==
            IF k = 0 THEN 0
            ELSE IF text[k] = "," THEN val[k - 1]
            ELSE 10 * val[k - 1] + (CHOOSE d \in 0..9 : Digit(d) = text[k])
    IN  IF digits = {} \/ \E k \in digits : text[k] \notin {Digit(d) : d \in 0..9}
        THEN -1
        ELSE val[Len(text)]

Counts(f, l, sp, d) == [_num_files |-> f, _num_symlinks |-> l, _num_special |-> sp, _num_dirs |-> d]

\* the counts a summary line shows
Shown(line) ==
    Counts(ParseFormatted(line.file_cnt), ParseFormatted(line.symlink_cnt),
           ParseFormatted(line.special_cnt), ParseFormatted(line.dir_cnt))

SummaryInit == {k \in 1..Len(out) : out[k].t = "summary_init"}

\* scan_path_init has printed its summary
ScanDone == pc = "done" /\ SummaryInit # {}

TopSummary == out[CHOOSE k \in SummaryInit : TRUE]

(***************************************************************************)
(* C1.  As stated: after a scan at level 0 the top-level counts reported   *)
(* are, per kind, the number of immediate children of the root of that     *)
(* kind whose metadata could be read, whatever the display flags are.      *)
(***************************************************************************)
C1_CountsIgnoreFlags ==
    ScanDone =>
        Shown(TopSummary) = Counts(Cardinality(OfKind(Root, "file")),
                                   Cardinality(OfKind(Root, "symlink")),
                                   Cardinality(OfKind(Root, "special")),
                                   Cardinality(OfKind(Root, "dir")))

\* the display of an entry of this kind is attempted
DisplayAttempted(q) ==
    \/ KindOf(q) = "dir"
    \/ KindOf(q) = "file" /\ get_option("ShowFiles")
    \/ KindOf(q) = "symlink" /\ get_option("ShowSymlinks")
    \/ KindOf(q) = "special" /\ get_option("ShowSpecial")

\* the display of the entry fails where it is attempted by scan_path
DisplayFails(q) ==
    \/ ~fs[q].canon_ok /\ (KindOf(q) = "symlink" \/ get_option("ShowAbsnoindent"))
    \/ ~fs[q].mtime_ok /\ get_option("ShowLasttime")

Counted(d, kind) == {q \in OfKind(d, kind) : ~(DisplayAttempted(q) /\ DisplayFails(q))}

(***************************************************************************)
(* C1, amended: the top-level counts reported are, per kind, the number of *)
(* immediate children of the root of that kind whose metadata could be     *)
(* read and whose display, where the flags had it attempted, did not fail. *)
(***************************************************************************)
C1_CountsOfDisplayable ==
    ScanDone =>
        /\ Shown(TopSummary) = Counts(Cardinality(Counted(Root, "file")),
                                      Cardinality(Counted(Root, "symlink")),
                                      Cardinality(Counted(Root, "special")),
                                      Cardinality(Counted(Root, "dir")))
        /\ Shown(TopSummary) = entry_cnts_init

\* a dangling symlink is shown, fails to display and is left out of the count
C1_Witness ==
    /\ ScanDone
    /\ get_option("ShowSymlinks")
    /\ \E q \in OfKind(Root, "symlink") : ~fs[q].canon_ok
    /\ entry_cnts_init._num_symlinks < Cardinality(OfKind(Root, "symlink"))
    /\ entry_cnts_init._num_dirs > 0

(***************************************************************************)
(* C2.  With no option set, the scan of a directory of f regular files,    *)
(* l symlinks, no special file and d directories, all with readable        *)
(* metadata, reports f files, l symlinks, 0 special files, d               *)
(* subdirectories and f + l + d entries; every directory has a line of its *)
(* own, the files and the symlinks only an aggregate line each.            *)
(***************************************************************************)
LinesOf(types) == {k \in 1..Len(out) : out[k].t \in types}

C2_FlatSummary ==
    (ScanDone /\ OPTION_MASK = {} /\ OfKind(Root, "special") = {}
              /\ \A q \in ChildrenOf(Root) : Readable(q)) =>
        LET f == Cardinality(OfKind(Root, "file"))
            l == Cardinality(OfKind(Root, "symlink"))
            d == Cardinality(OfKind(Root, "dir"))
        IN  /\ Shown(TopSummary) = Counts(f, l, 0, d)
            /\ ParseFormatted(TopSummary.total_cnt) = f + l + d
            /\ {out[k].p : k \in LinesOf({"dir"})} = OfKind(Root, "dir")
            /\ Cardinality(LinesOf({"dir"})) = d
            /\ LinesOf({"file", "symlink", "symlink_to_dir", "special"}) = {}
            /\ Cardinality(LinesOf({"agg_files"})) = (IF f > 0 THEN 1 ELSE 0)
            /\ Cardinality(LinesOf({"agg_symlinks"})) = (IF l > 0 THEN 1 ELSE 0)
            /\ \A k \in LinesOf({"agg_files"}) : ParseFormatted(out[k].n) = f
            /\ \A k \in LinesOf({"agg_symlinks"}) : ParseFormatted(out[k].n) = l

\* the case of 3 files, 1 symlink and 2 directories: 6 entries
C2_Witness ==
    /\ ScanDone
    /\ OPTION_MASK = {}
    /\ Cardinality(OfKind(Root, "file")) = 3
    /\ Cardinality(OfKind(Root, "symlink")) = 1
    /\ Cardinality(OfKind(Root, "dir")) = 2
    /\ ParseFormatted(TopSummary.total_cnt) = 6

(***************************************************************************)
(* C3.  As stated: a call of scan_path or search_path is on a directory of *)
(* a level within the depth limit when there is one, and with recursion    *)
(* and no limit every directory reachable from the root through            *)
(* directories that are no symlinks has been listed when the traversal is  *)
(* over.                                                                   *)
(***************************************************************************)
Listed == {listed[k] : k \in 1..Len(listed)}

WithinLimit ==
    /\ \A k \in 1..Len(stack) :
        /\ stack[k].level = Len(stack[k].path)
        /\ max_recur_level > 0 => stack[k].level <= max_recur_level
        /\ ~get_option("ShowRecursive") => stack[k].level = 0
    /\ \A q \in Listed : max_recur_level > 0 => Len(q) <= max_recur_level

C3_WholeTreeListed ==
    /\ WithinLimit
    /\ (pc = "done" /\ get_option("ShowRecursive") /\ max_recur_level = 0) =>
        \A q \in DOMAIN fs : (fs[q].ftype = "dir" /\ ThroughRealDirs(Root, q)) => q \in Listed

ScanMode == OPTION_MASK \cap {"SearchExact", "SearchNoext", "SearchContains"} = {}

\* q is a directory the traversal can get to: from the root down to q the metadata
\* is readable, what is above q could be listed and, for scan_path, every
\* directory on the way was displayed
Enterable(q) ==
    /\ fs[q].ftype = "dir"
    /\ \A k \in 1..Len(q) :
        LET a == SubSeq(q, 1, k)
        IN  /\ fs[a].ftype = "dir"
            /\ fs[a].meta_ok
            /\ fs[Parent(a)].list_ok
            /\ ScanMode => ~DisplayFails(a)

(***************************************************************************)
(* C3, amended: a call of scan_path or search_path is on a directory of a  *)
(* level within the depth limit when there is one; with recursion, every   *)
(* directory within the limit that is reached from the root through        *)
(* listed directories that are no symlinks, whose metadata could be read   *)
(* and, in scan_path, whose display did not fail, has been listed when the *)
(* traversal is over.                                                      *)
(***************************************************************************)
C3_EnterableTreeListed ==
    /\ WithinLimit
    /\ (pc = "done" /\ get_option("ShowRecursive")) =>
        \A q \in DOMAIN fs :
            (Enterable(q) /\ (max_recur_level = 0 \/ Len(q) <= max_recur_level)) => q \in Listed

\* limit 2: a directory of level 3 under listed directories is left alone
C3_Witness ==
    /\ pc = "done"
    /\ get_option("ShowRecursive")
    /\ max_recur_level = 2
    /\ \E q \in DOMAIN fs :
        /\ Len(q) = 3
        /\ Enterable(q)
        /\ q \notin Listed
        /\ Parent(q) \in Listed

(***************************************************************************)
(* C4.  The "<N files>" line of a directory is printed only without the    *)
(* absolute paths and the individual files and when there are files; N is  *)
(* the number of regular files of the directory and, with the directory    *)
(* sizes shown, the size column is the sum of their lengths.               *)
(***************************************************************************)
C4_AggregateFileSize ==
    \A k \in LinesOf({"agg_files"}) :
        LET F == OfKind(out[k].p, "file")
        IN  /\ ~get_option("ShowAbsnoindent")
            /\ ~get_option("ShowFiles")
            /\ Cardinality(F) > 0
            /\ ParseFormatted(out[k].n) = Cardinality(F)
            /\ get_option("ShowDirSize") => ParseFormatted(out[k].sz) = SumLen(F)

(***************************************************************************)
(* calc_dir_size stated on the tree: None when, the entries of X and what  *)
(* is below them left out, a directory cannot be listed or an entry has no *)
(* readable metadata; otherwise the lengths of the regular files.          *)
(***************************************************************************)
Without(d, X) ==
    {q \in RealBelow(d) : ~\E x \in X : Len(x) <= Len(q) /\ SubSeq(q, 1, Len(x)) = x}

SizeOf(d, X) ==
    IF \/ ~fs[d].list_ok
       \/ \E q \in Without(d, X) : ~fs[q].meta_ok \/ (fs[q].ftype = "dir" /\ ~fs[q].list_ok)
    THEN None
    ELSE Some(SumLen({q \in Without(d, X) : fs[q].ftype = "file"}))

\* the children whose DirEntry::metadata() fails
NoMetaChildren(d) == {q \in ChildrenOf(d) : fs[q].ftype # "err" /\ ~fs[q].meta_ok}

\* the items of the read_dir iterators that are errors
ErrItemsBelow(d) == {q \in RealBelow(d) : fs[q].ftype = "err"}

SizeProbed == probe.fn = "calc_dir_size"

(***************************************************************************)
(* C5.  As stated: calc_dir_size on a directory with a child whose         *)
(* metadata cannot be read returns what it would return if that child did  *)
(* not exist.                                                              *)
(***************************************************************************)
C5_UnreadableChildSkipped ==
    SizeProbed =>
        probe.ret.res = SizeOf(probe.arg, NoMetaChildren(probe.arg) \cup ErrItemsBelow(probe.arg))

(***************************************************************************)
(* C5, amended: calc_dir_size on a directory with a child whose metadata   *)
(* cannot be read returns None; what it skips silently, returning what it  *)
(* would return if they did not exist, are the items of the directory      *)
(* iterator that are errors.                                               *)
(***************************************************************************)
C5_UnreadableChildFails ==
    SizeProbed =>
        /\ NoMetaChildren(probe.arg) # {} => probe.ret.res = None
        /\ probe.ret.res = SizeOf(probe.arg, ErrItemsBelow(probe.arg))

\* the child without metadata is all that is wrong below the directory
C5_Witness ==
    /\ SizeProbed
    /\ NoMetaChildren(probe.arg) # {}
    /\ SizeOf(probe.arg, NoMetaChildren(probe.arg) \cup ErrItemsBelow(probe.arg)).some
    /\ probe.ret.res = None

(***************************************************************************)
(* C6.  calc_dir_size on a directory returns None when the directory or a  *)
(* directory below it, reached through directories that are no symlinks,   *)
(* cannot be listed; nothing is looked at after the entry the failure      *)
(* comes from; the line of the directory has ERROR for its size, and the   *)
(* entries after it are listed and the summary printed all the same.       *)
(***************************************************************************)
ListingFails(d) ==
    \E q \in {d} \cup RealBelow(d) : fs[q].ftype = "dir" /\ fs[q].meta_ok /\ ~fs[q].list_ok

FailurePoint(q) == ~fs[q].meta_ok \/ (fs[q].ftype = "dir" /\ ~fs[q].list_ok)

\* every entry of the root that scan_path is to print a line for
ToBeListed == {q \in ChildrenOf(Root) : Readable(q) /\ DisplayAttempted(q) /\ ~DisplayFails(q)}

C6_ListingFailurePropagates ==
    /\ \A d \in DOMAIN fs :
        (fs[d].ftype = "dir" /\ ListingFails(d)) =>
            LET size == calc_dir_size(d, d)
            IN  /\ size.res = None
                /\ FailurePoint(size.touched[Len(size.touched)])
                /\ \A k \in 1..Len(size.touched) :
                    FailurePoint(size.touched[k]) => size.touched[k] = size.touched[Len(size.touched)]
    /\ \A k \in LinesOf({"dir"}) :
        (get_option("ShowDirSize") /\ ListingFails(out[k].p)) => out[k].sz = <<"ERROR">>
    /\ ScanDone => \A q \in ToBeListed : \E k \in 1..Len(out) : out[k].p = q

\* the directory that cannot be listed is nested and has a sibling after it, and
\* the directory with the ERROR has an entry after it that was listed
C6_Witness ==
    /\ ScanDone
    /\ get_option("ShowDirSize")
    /\ \E k \in LinesOf({"dir"}) :
        /\ out[k].sz = <<"ERROR">>
        /\ fs[out[k].p].list_ok
        /\ \E q \in ChildrenOf(out[k].p) :
            /\ ~fs[q].list_ok
            /\ \E q2 \in ChildrenOf(out[k].p) : q2[Len(q2)] > q[Len(q)] /\ fs[q2].ftype = "file"
        /\ \E k2 \in (k + 1)..Len(out) :
            /\ out[k2].t \in {"file", "dir", "symlink", "special"}
            /\ Parent(out[k2].p) = Parent(out[k].p)

(***************************************************************************)
(* C7.  When calc_dir_size succeeds on a directory, the result is the sum  *)
(* of the lengths of the regular files in it and in the directories below  *)
(* it that are reached through directories only: a symlink adds nothing,   *)
(* whatever it points to, and a special file adds nothing.                 *)
(***************************************************************************)
C7_SumOfRegularFiles ==
    (SizeProbed /\ probe.ret.res.some) =>
        probe.ret.res.val = SumLen({q \in RealBelow(probe.arg) : fs[q].ftype = "file"})

\* a sum over two levels beside a symlink to a file
C7_Witness ==
    /\ SizeProbed
    /\ probe.ret.res.some
    /\ \E q \in RealBelow(probe.arg) : fs[q].ftype = "symlink" /\ fs[q].t_ftype = "file"
    /\ \E q \in RealBelow(probe.arg) : fs[q].ftype = "file" /\ Len(q) = Len(probe.arg) + 2
    /\ probe.ret.res.val > 0

(***************************************************************************)
(* C8.  The value of `matches` in search_path: with --search the file name *)
(* is the pattern; with --search-noext the file name without its last      *)
(* extension is the pattern; with --contains the pattern occurs in the     *)
(* file name.                                                              *)
(***************************************************************************)
\* name is stem, or stem followed by '.' and an extension without a '.'
WithoutLastExtension(name, stem) ==
    LET Split == {k \in 2..Len(name) :
                     /\ name[k] = "."
                     /\ \A j \in (k + 1)..Len(name) : name[j] # "."}
    IN  IF Split = {} THEN stem = name
        ELSE \E k \in Split : stem = SubSeq(name, 1, k - 1)

Occurs(pat, name) ==
    \E i \in 0..Len(name), j \in 0..Len(name) :
        i <= j /\ name = SubSeq(name, 1, i) \o pat \o SubSeq(name, j + 1, Len(name))

MatchProbed == probe.fn = "matches"

C8_SearchPredicate ==
    MatchProbed =>
        /\ probe.ret.some
        /\ get_option("SearchExact") => (probe.ret.val <=> probe.name = probe.pat)
        /\ get_option("SearchNoext") =>
            (probe.ret.val <=> WithoutLastExtension(probe.name, probe.pat))
        /\ get_option("SearchContains") => (probe.ret.val <=> Occurs(probe.pat, probe.name))

\* 'foo.txt' matches 'foo' with --search-noext
C8_Witness ==
    /\ MatchProbed
    /\ get_option("SearchNoext")
    /\ probe.name = <<"f", "o", "o", ".", "t", "x", "t">>
    /\ probe.pat = <<"f", "o", "o">>
    /\ probe.ret = Some(TRUE)

(***************************************************************************)
(* C9.  On a command line with two search flags of different modes, main   *)
(* never gets past its loop over the arguments: no directory is listed and *)
(* the exit status is not 0.  A traversal starts with at most one of the   *)
(* three search options set.                                               *)
(***************************************************************************)
SearchBits == {"SearchExact", "SearchNoext", "SearchContains"}

ModeOf(arg) ==
    IF arg \in {Arg_S, Arg_search} THEN "SearchExact"
    ELSE IF arg = Arg_search_noext THEN "SearchNoext"
    ELSE IF arg = Arg_contains THEN "SearchContains"
    ELSE "none"

TwoSearchModes ==
    \E i, j \in 1..Len(args) :
        ModeOf(args[i]) # "none" /\ ModeOf(args[j]) # "none" /\ ModeOf(args[i]) # ModeOf(args[j])

InArgumentLoop == pc = "main" /\ arg_i <= Len(args)

ExitedNonZero == pc = "exit" /\ exit_status.some /\ exit_status.val # 0

NothingListed == listed = << >> /\ stack = << >>

C9_OneSearchMode ==
    /\ TwoSearchModes => ((InArgumentLoop \/ ExitedNonZero) /\ NothingListed)
    /\ pc \notin {"main", "exit"} => Cardinality(OPTION_MASK \cap SearchBits) <= 1

\* the second search flag has ended the process
C9_Witness ==
    /\ TwoSearchModes
    /\ ExitedNonZero
    /\ exit_status = Some(EXIT_FAILURE)
    /\ Cardinality(OPTION_MASK \cap SearchBits) = 1
    /\ out[Len(out)].t = "one_search_mode"

(***************************************************************************)
(* C10.  On a command line with a search flag that is the last argument or *)
(* is followed by another flag, main never gets past its loop over the     *)
(* arguments: no traversal is started and the exit status is not 0.        *)
(***************************************************************************)
IsFlag(arg) == Len(arg) > 0 /\ arg[1] = "-"

PatternMissing ==
    \E i \in 1..Len(args) :
        /\ ModeOf(args[i]) # "none"
        /\ i = Len(args) \/ IsFlag(args[i + 1])

C10_SearchFlagNeedsPattern ==
    PatternMissing => ((InArgumentLoop \/ ExitedNonZero) /\ NothingListed)

(***************************************************************************)
(* What a traversal is to count, for a scan and for a search: a search     *)
(* displays an entry only when its name matches, and always with the       *)
(* absolute path.                                                          *)
(***************************************************************************)
WalkDisplayAttempted(q) ==
    IF ScanMode THEN DisplayAttempted(q)
    ELSE DisplayAttempted(q) /\ matches(fs[q], search_path) = Some(TRUE)

WalkDisplayFails(q) ==
    IF ScanMode THEN DisplayFails(q)
    ELSE ~fs[q].canon_ok \/ (~fs[q].mtime_ok /\ get_option("ShowLasttime"))

WalkCounted(d, kind) ==
    {q \in OfKind(d, kind) : ~(WalkDisplayAttempted(q) /\ WalkDisplayFails(q))}

\* the calls that are in their loop, and the entries such a call is done with
LoopFrames == {k \in 1..Len(stack) : stack[k].st = "loop"}

Processed(f) == ChildrenOf(f.path) \ {f.entries[k] : k \in 1..Len(f.entries)}

EntryLines == LinesOf({"file", "dir", "symlink", "symlink_to_dir", "special"})

(***************************************************************************)
(* C11.  An entry that is a symlink is counted as a symlink and never as a *)
(* directory, printed as a symlink, and never listed, whatever it points   *)
(* to, by scan_path and by search_path.                                    *)
(***************************************************************************)
C11_SymlinkStaysSymlink ==
    /\ \A k \in LoopFrames :
        LET f == stack[k]
        IN  /\ f.cur_entry_cnts._num_symlinks =
                   Cardinality(WalkCounted(f.path, "symlink") \cap Processed(f))
            /\ f.cur_entry_cnts._num_dirs =
                   Cardinality(WalkCounted(f.path, "dir") \cap Processed(f))
    /\ \A q \in DOMAIN fs :
        fs[q].ftype = "symlink" =>
            /\ q \notin Listed
            /\ \A k \in 1..Len(stack) : stack[k].path # q
    /\ \A k \in EntryLines :
        /\ fs[out[k].p].ftype = "symlink" <=> out[k].t \in {"symlink", "symlink_to_dir"}
        /\ fs[out[k].p].ftype = "symlink" => out[k].sz = <<"SYMLINK">>
        /\ out[k].t = "dir" => fs[out[k].p].ftype = "dir"

\* a symlink to a directory was printed with recursion on, and the traversal
\* ends with a symlink and no directory counted
C11_Witness ==
    /\ pc = "done"
    /\ get_option("ShowRecursive")
    /\ \E k \in EntryLines : out[k].t = "symlink_to_dir" /\ fs[out[k].p].t_ftype = "dir"
    /\ entry_cnts_full._num_symlinks = 1
    /\ entry_cnts_full._num_dirs = 0

(***************************************************************************)
(* C12.  Error messages go to standard error only, and only when errors    *)
(* are shown: without ShowErrors nothing is written to standard error, and *)
(* no error message is ever written to standard output, in a scan and in a *)
(* search, the root that cannot be listed included.                        *)
(***************************************************************************)
C12_ErrorsOnlyOnRequest ==
    /\ ~get_option("ShowErrors") => err = << >>
    /\ LinesOf({"error_iterating"}) = {}

(***************************************************************************)
(* C13.  As stated, read for the last -r of the command line: after the    *)
(* arguments are parsed, recursion is on with limit N when that -r is      *)
(* directly followed by a positive integer N, on without limit (0) when it *)
(* is not followed by an argument that is no flag, and off, with a warning *)
(* printed, when it is followed by such an argument that is no integer or  *)
(* is 0.                                                                   *)
(***************************************************************************)
\* main's loop over the arguments has ended without ending the process
AfterParsing == pc # "main" /\ exit_status \in {Running, Some(EXIT_OK)}

RecursivePositions == {i \in 1..Len(args) : args[i] \in {Arg_r, Arg_recursive}}

LastOf(S) == CHOOSE i \in S : \A j \in S : j <= i

\* the argument after position i is there and is no flag
HasValue(i) == i < Len(args) /\ ~IsFlag(args[i + 1])

\* the number a text of decimal digits stands for; -1 if it is none
Decimal(text) == IF \E k \in 1..Len(text) : text[k] = "," THEN -1 ELSE ParseFormatted(text)

DepthWarnings == {k \in 1..Len(out) : out[k].t \in {"depth_not_positive", "depth_not_integer"}}

C13_RecursionOfLastFlag ==
    (AfterParsing /\ RecursivePositions # {}) =>
        LET i == LastOf(RecursivePositions)
        IN  IF ~HasValue(i)
            THEN get_option("ShowRecursive") /\ max_recur_level = 0
            ELSE IF Decimal(args[i + 1]) > 0
            THEN get_option("ShowRecursive") /\ max_recur_level = Decimal(args[i + 1])
            ELSE ~get_option("ShowRecursive") /\ DepthWarnings # {}

(***************************************************************************)
(* C13, amended: after the arguments are parsed, recursion is on exactly   *)
(* when there is a -r and the last one is not directly followed by an      *)
(* argument that is no flag and is no positive integer (for which a        *)
(* warning is printed); the limit is the last integer that directly        *)
(* followed a -r, and 0 when there is none: a later -r without a depth     *)
(* does not reset the limit of an earlier one.                             *)
(***************************************************************************)
DepthPositions == {i \in RecursivePositions : HasValue(i) /\ Decimal(args[i + 1]) >= 0}

C13_RecursionOfAllFlags ==
    AfterParsing =>
        /\ get_option("ShowRecursive") <=>
              /\ RecursivePositions # {}
              /\ HasValue(LastOf(RecursivePositions)) =>
                     Decimal(args[LastOf(RecursivePositions) + 1]) > 0
        /\ max_recur_level = IF DepthPositions = {} THEN 0
                             ELSE Decimal(args[LastOf(DepthPositions) + 1])
        /\ Cardinality(DepthWarnings) =
              Cardinality({i \in RecursivePositions :
                              HasValue(i) /\ Decimal(args[i + 1]) <= 0})

\* two -r, the first with the depth 2 and the last without one: the limit stays
C13_Witness ==
    /\ AfterParsing
    /\ Cardinality(RecursivePositions) = 2
    /\ ~HasValue(LastOf(RecursivePositions))
    /\ get_option("ShowRecursive")
    /\ max_recur_level = 2

(***************************************************************************)
(* C14.  After the arguments are parsed, the pattern is the argument that  *)
(* directly follows the search flag, and the root path is the last         *)
(* argument that is no flag and directly follows neither a search flag nor *)
(* -r, "." when there is none: for -S foo dir the pattern is foo and the   *)
(* root path is dir.                                                       *)
(***************************************************************************)
SearchPositions == {i \in 1..Len(args) : ModeOf(args[i]) # "none"}

RootPositions ==
    {i \in 1..Len(args) :
        /\ ~IsFlag(args[i])
        /\ i > 1 => (i - 1) \notin (SearchPositions \cup RecursivePositions)}

C14_PatternAndRoot ==
    AfterParsing =>
        /\ (SearchPositions # {} /\ HasValue(LastOf(SearchPositions))) =>
               search_path = args[LastOf(SearchPositions) + 1]
        /\ init_path = IF RootPositions = {} THEN <<".">> ELSE args[LastOf(RootPositions)]

(***************************************************************************)
(* C15.  OPTION_MASK is written by the loop of main over the arguments     *)
(* only: no step of a traversal changes it, so a flag has one value from   *)
(* the start of a traversal to its end.                                    *)
(***************************************************************************)
C15_MaskWrittenByMainOnly ==
    [][/\ OPTION_MASK' # OPTION_MASK => (pc = "main" /\ arg_i <= Len(args))
       /\ pc # "main" => OPTION_MASK' = OPTION_MASK]_vars

\* a traversal under some flags has run to its end
C15_Witness ==
    /\ pc = "done"
    /\ listed # << >>
    /\ get_option("ShowFiles")
    /\ Len(out) > 1

(***************************************************************************)
(* C16.  No failure below the root ends the run: whatever cannot be listed *)
(* or read or displayed, the process has not exited, no directory is       *)
(* listed twice and no message written twice, scan_path_init or            *)
(* search_path_init returns, and when the root could be listed the         *)
(* summary has been printed by then.                                       *)
(***************************************************************************)
SummaryLines ==
    LinesOf({"summary_init", "summary_full", "summary_match", "summary_traversal"})

NoRetry ==
    /\ \A i, j \in 1..Len(listed) : listed[i] = listed[j] => i = j
    /\ \A i, j \in 1..Len(err) : err[i] = err[j] => i = j

Returned == pc = "done" /\ stack = << >>

C16_RunGoesOn ==
    /\ exit_status = Running
    /\ NoRetry
    /\ pc = "done" => Returned
    /\ (Returned /\ fs[Root].list_ok) =>
           (Len(out) > 0 /\ Len(out) \in SummaryLines /\ Cardinality(SummaryLines) \in {1, 2})
    /\ ~fs[Root].list_ok => SummaryLines = {}

C16_NoFatalError == []C16_RunGoesOn /\ <>Returned

\* a traversal that met a directory it could not list, unreadable metadata and a
\* symlink it could not display, and printed its summary
C16_Witness ==
    /\ Returned
    /\ SummaryLines # {}
    /\ \E q \in Listed : ~fs[q].list_ok
    /\ \E q \in DOMAIN fs : fs[q].ftype = "file" /\ ~fs[q].meta_ok
    /\ \E k \in 1..Len(err) : err[k].msg = "iterating"

(***************************************************************************)
(* C17.  In scan_path an entry whose display is attempted and fails is not *)
(* counted: not in the counter of the call, not in the top-level counter,  *)
(* not in the cumulative one; and a directory whose display failed is not  *)
(* listed.                                                                 *)
(***************************************************************************)
Kinds == {"file", "symlink", "special", "dir"}

KindCount(c, kind) ==
    IF kind = "file" THEN c._num_files
    ELSE IF kind = "symlink" THEN c._num_symlinks
    ELSE IF kind = "special" THEN c._num_special
    ELSE c._num_dirs

Failed(d, kind) == {q \in OfKind(d, kind) : DisplayAttempted(q) /\ DisplayFails(q)}

\* the directories whose listing succeeded
ListedOk == {d \in Listed : fs[d].list_ok}

RECURSIVE SumOver(_, _, _)
SumOver(S, F(_, _), kind) ==
    IF S = {} THEN 0
    ELSE LET d == CHOOSE x \in S : TRUE
         IN  Cardinality(F(d, kind)) + SumOver(S \ {d}, F, kind)

C17_FailedDisplayUncounted ==
    /\ \A k \in LoopFrames, kind \in Kinds :
        LET f == stack[k]
        IN  KindCount(f.cur_entry_cnts, kind) =
                Cardinality(OfKind(f.path, kind) \cap Processed(f))
                - Cardinality(Failed(f.path, kind) \cap Processed(f))
    /\ ScanDone => \A kind \in Kinds :
        /\ KindCount(entry_cnts_init, kind) =
               Cardinality(OfKind(Root, kind)) - Cardinality(Failed(Root, kind))
        /\ KindCount(entry_cnts_full, kind) =
               SumOver(ListedOk, OfKind, kind) - SumOver(ListedOk, Failed, kind)
    /\ \A d \in DOMAIN fs : \A q \in Failed(d, "dir") :
        /\ q \notin Listed
        /\ \A k \in 1..Len(stack) : stack[k].path # q

\* with recursion and absolute paths, a directory that has entries could not be
\* displayed: it is not listed, and a symlink that could not be displayed is not counted
C17_Witness ==
    /\ ScanDone
    /\ get_option("ShowRecursive")
    /\ get_option("ShowAbsnoindent")
    /\ get_option("ShowSymlinks")
    /\ \E q \in Failed(Root, "dir") : ChildrenOf(q) # {} /\ q \notin Listed
    /\ Failed(Root, "symlink") # {}
    /\ entry_cnts_full = EntryCounter_new

(***************************************************************************)
(* C18.  When the call of scan_path or search_path on a subdirectory S     *)
(* cannot list S, the call on the parent goes on: S stays counted as a     *)
(* directory of the parent, the entries after S are counted and, where     *)
(* they are to be shown, printed, and the parent returns with its counts   *)
(* added to the cumulative counter.                                        *)
(***************************************************************************)
\* the subdirectories of d that a nested call failed to list
FailedToList(d) == {S \in ChildrenOf(d) : S \in Listed /\ ~fs[S].list_ok}

\* the entries after S in the iteration of its directory
After(S) == {q \in ChildrenOf(Parent(S)) : q[Len(q)] > S[Len(S)]}

ToBePrinted(q) == Readable(q) /\ WalkDisplayAttempted(q) /\ ~WalkDisplayFails(q)

C18_ParentGoesOn ==
    /\ \A k \in LoopFrames : \A kind \in Kinds :
        LET f == stack[k]
        IN  FailedToList(f.path) # {} =>
                KindCount(f.cur_entry_cnts, kind) =
                    Cardinality(WalkCounted(f.path, kind) \cap Processed(f))
    /\ Returned => \A d \in ListedOk : FailedToList(d) # {} =>
        /\ \A S \in FailedToList(d) : \A q \in After(S) :
               ToBePrinted(q) => \E k \in EntryLines : out[k].p = q
        /\ \A kind \in Kinds :
               KindCount(entry_cnts_full, kind) = SumOver(ListedOk, WalkCounted, kind)
        /\ SummaryLines # {}

\* the first entry of a directory could not be listed by the nested call, and
\* the entry after it was counted and printed
C18_Witness ==
    /\ Returned
    /\ \E d \in ListedOk : \E S \in FailedToList(d) : \E q \in After(S) :
        /\ ToBePrinted(q)
        /\ \E k \in EntryLines : out[k].p = q
        /\ KindCount(entry_cnts_full, "dir") >= 1
        /\ KindCount(entry_cnts_full, KindOf(q)) >= 1

(***************************************************************************)
(* C19.  For a directory scan_path has listed and is done with, the line   *)
(* "<N files>" is there, once, exactly when the absolute paths are off,    *)
(* the files are not shown and the directory has files; likewise the       *)
(* symlinks and the special files.  The lines of a directory come in the   *)
(* order files, symlinks, special files, after every line of what is in    *)
(* and below the directory.  With absolute paths, and in a search, there   *)
(* is no such line.                                                        *)
(***************************************************************************)
AggKinds == {"file", "symlink", "special"}

AggType(kind) ==
    IF kind = "file" THEN "agg_files"
    ELSE IF kind = "symlink" THEN "agg_symlinks"
    ELSE "agg_special"

AggRank(t) == IF t = "agg_files" THEN 1 ELSE IF t = "agg_symlinks" THEN 2 ELSE 3

ShowFlag(kind) ==
    IF kind = "file" THEN "ShowFiles"
    ELSE IF kind = "symlink" THEN "ShowSymlinks"
    ELSE "ShowSpecial"

AggLines == LinesOf({"agg_files", "agg_symlinks", "agg_special"})

AggLinesOf(d, kind) == {k \in LinesOf({AggType(kind)}) : out[k].p = d}

\* the directories a call of scan_path listed and has returned from
DoneWith == {d \in ListedOk : \A k \in 1..Len(stack) : stack[k].path # d}

C19_AggregateLines ==
    /\ (get_option("ShowAbsnoindent") \/ ~ScanMode) => AggLines = {}
    /\ \A k \in AggLines : out[k].p \in DoneWith
    /\ \A d \in DoneWith : \A kind \in AggKinds :
        Cardinality(AggLinesOf(d, kind)) =
            IF /\ ScanMode
               /\ ~get_option("ShowAbsnoindent")
               /\ ~get_option(ShowFlag(kind))
               /\ OfKind(d, kind) # {}
            THEN 1 ELSE 0
    /\ \A k \in AggLines :
        /\ \A j \in AggLines :
            (out[j].p = out[k].p /\ AggRank(out[j].t) < AggRank(out[k].t)) => j < k
        /\ \A j \in EntryLines \cup AggLines : out[j].p \in Below(out[k].p) => j < k

\* the lines of the files and of the symlinks of a subdirectory, then a line of
\* the root
C19_Witness ==
    \E d \in DoneWith :
        /\ d # Root
        /\ AggLinesOf(d, "file") # {}
        /\ AggLinesOf(d, "symlink") # {}
        /\ \E k \in AggLines : out[k].p = Root

(***************************************************************************)
(* C20.  The cumulative counter of scan_path_init is the sum of the        *)
(* counters of the calls of scan_path that listed their directory, each    *)
(* taken when the call returns, and the top-level counter is the counter   *)
(* of the call on the root: a step adds to them only when a call returns   *)
(* from its loop, a call that could not list its directory adds nothing.   *)
(* So the cumulative counter is at least the top-level one for every kind, *)
(* and the same when recursion is off.                                     *)
(***************************************************************************)
Plus(a, b) ==
    Counts(a._num_files + b._num_files, a._num_symlinks + b._num_symlinks,
           a._num_special + b._num_special, a._num_dirs + b._num_dirs)

\* the innermost call of scan_path is at the end of its loop
AtLoopEnd ==
    /\ pc = "scan"
    /\ stack # << >>
    /\ Head(stack).st = "loop"
    /\ Head(stack).entries = << >>

CountersStep ==
    IF AtLoopEnd /\ stack' = Tail(stack)
    THEN /\ entry_cnts_full' = Plus(entry_cnts_full, Head(stack).cur_entry_cnts)
         /\ entry_cnts_init' = IF Head(stack).level = 0 THEN Head(stack).cur_entry_cnts
                               ELSE entry_cnts_init
         /\ Head(stack).level = 0 => entry_cnts_init = EntryCounter_new
    ELSE UNCHANGED <<entry_cnts_init, entry_cnts_full>>

CountersOrdered ==
    /\ \A kind \in Kinds : KindCount(entry_cnts_full, kind) >= KindCount(entry_cnts_init, kind)
    /\ (ScanDone /\ ~get_option("ShowRecursive")) => entry_cnts_full = entry_cnts_init
    /\ ~fs[Root].list_ok =>
           (entry_cnts_full = EntryCounter_new /\ entry_cnts_init = EntryCounter_new)

C20_CumulativeIsSumOfLevels == []CountersOrdered /\ [][CountersStep]_vars

\* with recursion, the cumulative counter has more than the top-level one, and
\* a directory that could not be listed was met
C20_Witness ==
    /\ ScanDone
    /\ get_option("ShowRecursive")
    /\ \E kind \in Kinds : KindCount(entry_cnts_full, kind) > KindCount(entry_cnts_init, kind)
    /\ \E d \in Listed : ~fs[d].list_ok
    /\ entry_cnts_init # EntryCounter_new

(***************************************************************************)
(* C21.  search_path prints an entry only if its name satisfies the search *)
(* predicate and, unless it is a directory, the flag of its kind is set.   *)
(* An entry it does not print for one of these reasons is counted once     *)
(* among the traversed entries and not among the matches; an entry it      *)
(* prints is counted once among both.                                      *)
(***************************************************************************)
\* the name of the entry satisfies the predicate of the search mode
Satisfies(q) ==
    IF get_option("SearchNoext") THEN WithoutLastExtension(fs[q].name, search_path)
    ELSE IF get_option("SearchExact") THEN fs[q].name = search_path
    ELSE Occurs(search_path, fs[q].name)

ToRender(q) == Readable(q) /\ Satisfies(q) /\ (KindOf(q) = "dir" \/ get_option(ShowFlag(KindOf(q))))

RenderFails(q) == ~fs[q].canon_ok \/ (~fs[q].mtime_ok /\ get_option("ShowLasttime"))

\* the entries the loops of search_path are done with
Visited ==
    {q \in DOMAIN fs \ {Root} :
        /\ Parent(q) \in ListedOk
        /\ \A k \in 1..Len(stack) : \A j \in 1..Len(stack[k].entries) : stack[k].entries[j] # q}

\* the directories whose call of search_path has returned None
SearchedDirs == {d \in ListedOk : \A k \in 1..Len(stack) : stack[k].path # d}

TraversedOf(d, kind) == {q \in OfKind(d, kind) : ~ToRender(q) \/ ~RenderFails(q)}

C21_RenderedAndCounted ==
    ~ScanMode =>
        /\ \A k \in EntryLines : ToRender(out[k].p) /\ ~RenderFails(out[k].p)
        /\ \A q \in Visited :
            Cardinality({k \in EntryLines : out[k].p = q}) =
                IF ToRender(q) /\ ~RenderFails(q) THEN 1 ELSE 0
        /\ \A kind \in Kinds :
            /\ KindCount(entry_cnts_init, kind) =
                   Cardinality({q \in Visited : KindOf(q) = kind /\ ToRender(q) /\ ~RenderFails(q)})
            /\ KindCount(entry_cnts_full, kind) = SumOver(SearchedDirs, TraversedOf, kind)
            /\ \A k \in LoopFrames :
                KindCount(stack[k].cur_entry_cnts, kind) =
                    Cardinality(TraversedOf(stack[k].path, kind) \cap Visited)

\* a search ends with a file printed, a file of another name and a special file
\* not printed, the three of them among the traversed entries
C21_Witness ==
    /\ pc = "done"
    /\ get_option("ShowFiles")
    /\ ~get_option("ShowSpecial")
    /\ \E q \in Visited : KindOf(q) = "file" /\ ToRender(q)
    /\ \E q \in Visited : KindOf(q) = "file" /\ Readable(q) /\ ~Satisfies(q)
    /\ \E q \in Visited : KindOf(q) = "special" /\ Satisfies(q)
    /\ entry_cnts_init._num_special = 0
    /\ entry_cnts_full._num_special > 0
    /\ entry_cnts_full._num_files > entry_cnts_init._num_files
    /\ entry_cnts_init._num_files > 0

(***************************************************************************)
(* C22.  A search with recursion ends, and when it has ended every         *)
(* directory within the depth limit that is reached through listed         *)
(* directories, is no symlink and has readable metadata has been listed,   *)
(* whether its own name satisfies the predicate or not and whether it      *)
(* could be printed or not; so every entry of such a directory that is to  *)
(* be printed, and can be, has been printed.                               *)
(***************************************************************************)
InLimit(d) ==
    \/ d = Root
    \/ get_option("ShowRecursive") /\ (max_recur_level = 0 \/ Len(d) <= max_recur_level)

SearchOver == ~ScanMode /\ pc = "done"

MatchesFound ==
    SearchOver =>
        /\ \A d \in DOMAIN fs : (Enterable(d) /\ InLimit(d)) => d \in Listed
        /\ \A q \in DOMAIN fs \ {Root} :
            (Enterable(Parent(q)) /\ InLimit(Parent(q)) /\ ToRender(q) /\ ~RenderFails(q)) =>
                \E k \in EntryLines : out[k].p = q

C22_MatchesAtAnyDepth == <>SearchOver /\ []MatchesFound

\* a directory of another name and a directory that could not be printed were
\* listed, and a file of the third level was printed
C22_Witness ==
    /\ SearchOver
    /\ \E d \in Listed : d # Root /\ ~Satisfies(d)
    /\ \E d \in Listed : d # Root /\ Satisfies(d) /\ RenderFails(d)
    /\ \E k \in EntryLines : Len(out[k].p) = 3 /\ ~Satisfies(Parent(out[k].p))

(***************************************************************************)
(* C23.  No field of an EntryCounter is ever below zero.  An iteration of  *)
(* the loop of scan_path leaves each field of the counter of its call as   *)
(* it was or one higher: where it takes one away, for an entry that could  *)
(* not be printed, it has added one for that entry and that kind just      *)
(* before.                                                                 *)
(***************************************************************************)
NonNegative(c) == \A kind \in Kinds : KindCount(c, kind) >= 0

CountersNonNegative ==
    /\ NonNegative(entry_cnts_init)
    /\ NonNegative(entry_cnts_full)
    /\ \A k \in 1..Len(stack) : NonNegative(stack[k].cur_entry_cnts)

\* the innermost call of scan_path is about to look at an entry
InLoop ==
    /\ pc = "scan"
    /\ stack # << >>
    /\ Head(stack).st = "loop"
    /\ Head(stack).entries # << >>

\* the frame of the innermost call once it has looked at the entry
SameCall(j) ==
    /\ stack'[j].path = Head(stack).path
    /\ stack'[j].entries = Tail(Head(stack).entries)

IterationStep ==
    (InLoop /\ stack' # stack) =>
        \E j \in 1..Len(stack') :
            /\ SameCall(j)
            /\ \A kind \in Kinds :
                LET before == KindCount(Head(stack).cur_entry_cnts, kind)
                    after == KindCount(stack'[j].cur_entry_cnts, kind)
                    q == Head(Head(stack).entries)
                IN  /\ after \in {before, before + 1}
                    /\ after = before + 1 <=> q \in Counted(Head(stack).path, kind)

C23_NoUnderflow == []CountersNonNegative /\ [][IterationStep]_vars

\* a scan is over in which a symlink and a directory of the root could not be
\* printed: neither is counted
C23_Witness ==
    /\ ScanDone
    /\ Failed(Root, "symlink") # {}
    /\ Failed(Root, "dir") # {}
    /\ entry_cnts_init._num_symlinks = 0
    /\ entry_cnts_init._num_dirs = 0

(***************************************************************************)
(* The directories a traversal lists.  calc_dir_size touches a directory   *)
(* it goes into twice in a row, for its metadata and for read_dir, and     *)
(* starts with read_dir of its argument.                                   *)
(***************************************************************************)
RealDirs == {q \in DOMAIN fs : fs[q].ftype = "dir" /\ ThroughRealDirs(Root, q)}

TreeDepth == CHOOSE n \in 0..Len(NestShape) :
                 /\ \E q \in RealDirs : Len(q) = n
                 /\ \A q \in RealDirs : Len(q) <= n

\* the directories printed with their size: show_dir called calc_dir_size on each
SizedDirs == IF get_option("ShowDirSize") THEN {out[k].p : k \in LinesOf({"dir"})} ELSE {}

SizeRun(d) == calc_dir_size(d, d).touched

ListingsIn(t) == {k \in 1..Len(t) : k = 1 \/ t[k] = t[k - 1]}

TraversalOver == pc = "done"

\* scan_path and search_path: a directory is listed once, by a call whose level is
\* the depth of the directory, within the limit
WalkNesting ==
    /\ \A i \in 1..Len(listed), j \in 1..Len(listed) : listed[i] = listed[j] => i = j
    /\ \A q \in Listed : q \in RealDirs
    /\ \A k \in 1..Len(stack) :
        /\ stack[k].level = Len(stack) - k
        /\ stack[k].level = Len(stack[k].path)
        /\ stack[k].path \in RealDirs
        /\ stack[k].level <= TreeDepth
        /\ max_recur_level > 0 => stack[k].level <= max_recur_level

\* calc_dir_size: a directory is listed once, and is a directory of the tree
SizeNesting ==
    \A d \in SizedDirs :
        LET t == SizeRun(d)
        IN  \A i \in ListingsIn(t) :
                /\ t[i] \in RealDirs
                /\ Len(t[i]) - Len(d) <= TreeDepth
                /\ \A j \in ListingsIn(t) : t[i] = t[j] => i = j

\* calc_dir_size: no nested call beyond the depth limit
SizeWithinLimit ==
    \A d \in SizedDirs :
        LET t == SizeRun(d)
        IN  \A i \in ListingsIn(t) : max_recur_level > 0 => Len(t[i]) - Len(d) <= max_recur_level

(***************************************************************************)
(* A bound on the steps a traversal has left: a call of scan_path or       *)
(* search_path takes a step for read_dir, one for each entry and one to    *)
(* return, and a directory among the entries may add a call.               *)
(***************************************************************************)
RECURSIVE Cost(_)
RECURSIVE SumCost(_)

EntryCost(q) == 1 + (IF fs[q].ftype = "dir" THEN Cost(q) ELSE 0)

SumCost(S) ==
    IF S = {} THEN 0
    ELSE LET q == CHOOSE x \in S : TRUE IN EntryCost(q) + SumCost(S \ {q})

Cost(d) == 2 + SumCost(ChildrenOf(d))

FrameCost(f) ==
    IF f.st = "call" THEN Cost(f.path)
    ELSE 1 + SumCost({f.entries[k] : k \in 1..Len(f.entries)})

RECURSIVE StackCost(_)
StackCost(st) == IF st = << >> THEN 0 ELSE FrameCost(Head(st)) + StackCost(Tail(st))

StepsLeft ==
    StackCost(stack)
    + (IF pc \in {"scan_init", "search_init"} THEN 2 + Cost(Root)
       ELSE IF pc = "done" THEN 0 ELSE 1)

\* every step of a traversal takes at least one off the bound, which is never negative
Terminating == [](StepsLeft >= 0) /\ [][StepsLeft' < StepsLeft]_vars

(***************************************************************************)
(* C24.  As stated: a traversal of a finite tree, symlinks to directories  *)
(* in it, ends; no directory is listed twice by scan_path or search_path,  *)
(* nor by a call of calc_dir_size; and the nesting of the calls of each of *)
(* the three is at most the depth of the tree of directories and, with a   *)
(* depth limit N > 0, at most N.                                           *)
(***************************************************************************)
C24_NestingWithinLimit ==
    Terminating /\ []WalkNesting /\ []SizeNesting /\ []SizeWithinLimit

(***************************************************************************)
(* C24, amended: a traversal of a finite tree, symlinks to directories in  *)
(* it, ends; no directory is listed twice by scan_path or search_path, nor *)
(* by a call of calc_dir_size; the nesting of the calls of each of the     *)
(* three is at most the depth of the tree of directories, and that of      *)
(* scan_path and search_path at most N with a depth limit N > 0.           *)
(***************************************************************************)
C24_NestingWithinTree == Terminating /\ []WalkNesting /\ []SizeNesting

\* under the depth limit 1 a directory of the root was printed with its size,
\* for which calc_dir_size listed a directory two levels further down, next to
\* a symlink to a directory
C24_Witness ==
    /\ TraversalOver
    /\ get_option("ShowRecursive")
    /\ max_recur_level = 1
    /\ \E d \in SizedDirs :
        /\ Len(d) = 1
        /\ \E i \in ListingsIn(SizeRun(d)) : Len(SizeRun(d)[i]) = 3
        /\ \E q \in ChildrenOf(d) : fs[q].ftype = "symlink" /\ fs[q].t_ftype = "dir"
    /\ Len(listed) > 1

(***************************************************************************)
(* C25.  When search_path_init has printed its two summaries, the matches  *)
(* are, for each kind and in total, at most the traversed entries, in the  *)
(* counters and in the numbers printed.                                    *)
(***************************************************************************)
SummaryOf(t) == out[CHOOSE k \in LinesOf({t}) : TRUE]

SearchCompleted == pc = "done" /\ LinesOf({"summary_match"}) # {}

C25_MatchesAtMostTraversed ==
    SearchCompleted =>
        /\ LinesOf({"summary_traversal"}) # {}
        /\ Shown(SummaryOf("summary_match")) = entry_cnts_init
        /\ Shown(SummaryOf("summary_traversal")) = entry_cnts_full
        /\ \A kind \in Kinds :
            KindCount(entry_cnts_init, kind) <= KindCount(entry_cnts_full, kind)
        /\ get_entry_cnt(entry_cnts_init) <= get_entry_cnt(entry_cnts_full)
        /\ ParseFormatted(SummaryOf("summary_match").total_cnt)
               <= ParseFormatted(SummaryOf("summary_traversal").total_cnt)

\* a search is over with files and directories among the matches, more files
\* traversed than matched and every traversed directory a match
C25_Witness ==
    /\ SearchCompleted
    /\ entry_cnts_init._num_files > 0
    /\ entry_cnts_init._num_files < entry_cnts_full._num_files
    /\ entry_cnts_init._num_dirs > 0
    /\ entry_cnts_init._num_dirs = entry_cnts_full._num_dirs

(***************************************************************************)
(* C26.  An argument of length 0 is ignored: once main has looked at one,  *)
(* 'Ignoring Unknown Option of length 0' has been printed and the process  *)
(* has not ended abnormally; main goes on with the next argument.          *)
(***************************************************************************)
EmptySeen == \E i \in 1..Len(args) : i < arg_i /\ args[i] = << >>

Ignored == \E k \in 1..Len(out) : out[k].t = "ignoring_length_0"

C26_EmptyArgumentIgnored ==
    EmptySeen =>
        /\ Ignored
        /\ exit_status # Some(EXIT_PANIC)
        /\ (pc = "exit" => exit_status \in {Some(EXIT_OK), Some(EXIT_FAILURE)})

(***************************************************************************)
(* C27.  int_to_formatted_slice(n) is the decimal digits of n with a ','   *)
(* before every group of three digits counted from the right but the       *)
(* first, '0' for 0; the bytes it writes are those of BUFF before index    *)
(* MAX_FMT_INT_LEN, at most 26 of them.                                    *)
(***************************************************************************)
FmtProbed == probe.fn = "int_to_formatted_slice"

\* the text without its separators
Unseparated(text) ==
    LET F[k \in 0..Len(text)] ==
            IF k = 0 THEN << >>
            ELSE IF text[k] = "," THEN F[k - 1] ELSE Append(F[k - 1], text[k])
    IN  F[Len(text)]

\* a ',' exactly at every fourth place from the right
GroupedByThree(text) ==
    \A k \in 1..Len(text) : text[k] = "," <=> (Len(text) - k + 1) % 4 = 0

C27_FormattedInteger ==
    FmtProbed =>
        /\ Unseparated(probe.ret.slice) = probe.n
        /\ GroupedByThree(probe.ret.slice)
        /\ probe.ret.slice[1] # ","
        /\ probe.ret.slice[Len(probe.ret.slice)] # ","
        /\ Len(probe.ret.slice) = probe.ret.BUFF_LEN
        /\ probe.ret.BUFF_LEN - 1 < MAX_FMT_INT_LEN
        /\ probe.ret.BUFF_LEN <= 26

\* 2^64 - 1 is 18,446,744,073,709,551,615: 26 bytes
C27_Witness ==
    /\ FmtProbed
    /\ probe.n = U64_MAX
    /\ probe.ret.BUFF_LEN = 26
    /\ probe.ret.slice = <<"1", "8", ",", "4", "4", "6", ",", "7", "4", "4", ",", "0", "7", "3",
                           ",", "7", "0", "9", ",", "5", "5", "1", ",", "6", "1", "5">>

====
